---- MODULE Spec2Model ----
(***************************************************************************)
(* A model of probe-rs' debug variable core                                *)
(* (probe-rs/src/debug/variable.rs): the VariableCache, a HashMap from an  *)
(* i64 key to a Variable, the key allocator shared by all caches, and the  *)
(* value extraction that cache_variable runs on every stored Variable.     *)
(*                                                                         *)
(* Conventions.  Option<T> is a sequence of length 0 (None) or 1 (Some).   *)
(* A String is a sequence of atoms, each atom a TLA+ string: digits and    *)
(* decoded characters are one-character atoms, fixed messages and type     *)
(* names are one atom each.  A HashMap is a function from its keys; the    *)
(* order in which HashMap::values() yields the entries is not fixed by the *)
(* program, so every operation that iterates takes that order as an input. *)
(***************************************************************************)
EXTENDS Integers, Sequences, FiniteSets, TLC

VARIABLES
    caches,     \* caches[c]: the variable_hash_map of VariableCache c
    CACHE_KEY,  \* the process-wide key counter behind get_sequential_key()
    memory,     \* target memory, one byte per address
    last,       \* the last operation: its arguments and what it returned
    issued,     \* the keys get_sequential_key() has handed out, in order
    pc,         \* pc[t]: where thread t stands inside cache_variable
    local       \* local[t]: thread t's variable_to_add and parent argument

vars == <<caches, CACHE_KEY, memory, last, issued, pc, local>>

---------------------------------------------------------------------------
(* Bounds *)

\* Keys the allocator may hand out before the model stops adding.
MaxKey == 3
\* Highest address of the modelled target memory.
MemTop == 3

Caches == {1, 2}
Threads == {1, 2}
Addr == 0 .. MemTop

---------------------------------------------------------------------------
(* Option, String *)

None == <<>>
Some(x) == <<x>>
Unwrap(o) == o[1]

Digit(d) ==
    CASE d = 0 -> "0" [] d = 1 -> "1" [] d = 2 -> "2" [] d = 3 -> "3"
      [] d = 4 -> "4" [] d = 5 -> "5" [] d = 6 -> "6" [] d = 7 -> "7"
      [] d = 8 -> "8" [] d = 9 -> "9" [] d = 10 -> "A" [] d = 11 -> "B"
      [] d = 12 -> "C" [] d = 13 -> "D" [] d = 14 -> "E" [] d = 15 -> "F"

RECURSIVE HexDigits(_, _)
HexDigits(n, width) ==
    IF width = 0 THEN <<>>
    ELSE HexDigits(n \div 16, width - 1) \o <<Digit(n % 16)>>

\* format!("{:#010X}", address): "0x" and eight upper-case hex digits
Hex010X(address) == <<"0x">> \o HexDigits(address, 8)

IsDigit(ch) == ch \in {"0", "1", "2", "3", "4", "5", "6", "7", "8", "9"}
DigitValue(ch) == CHOOSE d \in 0 .. 9 : Digit(d) = ch

---------------------------------------------------------------------------
(* VariableValue, VariableType, VariableNodeType, VariableLocation *)

Empty == [tag |-> "Empty", text |-> <<>>]
Valid(t) == [tag |-> "Valid", text |-> t]
Error(t) == [tag |-> "Error", text |-> t]

value_is_valid(value) == value.tag # "Error"
value_is_empty(value) == value.tag = "Empty"

TypeUnknown == [kind |-> "Unknown", name |-> None]
Base(n) == [kind |-> "Base", name |-> Some(n)]
Struct(n) == [kind |-> "Struct", name |-> Some(n)]
Pointer(optName) == [kind |-> "Pointer", name |-> optName]
\* Array { entry_type, count }, named by the text "entry_type; count"
Array(entry) == [kind |-> "Array", name |-> Some(entry)]

type_display(t) ==
    CASE t.kind \in {"Base", "Struct", "Enum", "Other"} -> <<Unwrap(t.name)>>
      [] t.kind = "Namespace" -> <<"<namespace>">>
      [] t.kind = "Pointer" ->
            IF t.name = None THEN <<"<unnamed>">> ELSE <<Unwrap(t.name)>>
      [] t.kind = "Array" -> <<"[", Unwrap(t.name), "]">>
      [] t.kind = "Unnamed" -> <<"<unnamed>">>
      [] t.kind = "Unknown" -> <<"<unknown>">>

is_deferred(node_type) ==
    node_type \in {"ReferenceOffset", "TypeOffset", "DirectLookup"}

LocUnknown == [kind |-> "Unknown", at |-> 0]
LocUnavailable == [kind |-> "Unavailable", at |-> 0]
Address(a) == [kind |-> "Address", at |-> a]
Register(r) == [kind |-> "Register", at |-> r]
LocValue == [kind |-> "Value", at |-> 0]
LocError == [kind |-> "Error", at |-> 0]
LocUnsupported == [kind |-> "Unsupported", at |-> 0]

\* location_valid that takes a location not yet evaluated for invalid.
location_valid_evaluated(loc) == loc.kind \in {"Address", "Register", "Value"}

location_valid(loc) == loc.kind \in {"Address", "Register", "Value", "Unknown"}

\* Ok(address) for Address(address), Err for every other location
memory_address(loc) ==
    IF loc.kind = "Address" THEN [ok |-> TRUE, at |-> loc.at]
    ELSE [ok |-> FALSE, at |-> 0]

location_debug(loc) == <<loc.kind>>

---------------------------------------------------------------------------
(* Variable *)

NewVariable(name, type_name, node_type, location) ==
    [variable_key |-> 0, parent_key |-> None, name |-> name, value |-> Empty,
     type_name |-> type_name, variable_node_type |-> node_type,
     memory_location |-> location]

Named(n) == [kind |-> "Named", text |-> n]

---------------------------------------------------------------------------
(* VariableCache: the read operations *)

\* HashMap::insert / HashMap::remove
MapInsert(map, key, v) ==
    [k \in DOMAIN map \cup {key} |-> IF k = key THEN v ELSE map[k]]
MapRemove(map, key) == [k \in DOMAIN map \ {key} |-> map[k]]
EmptyMap == [k \in {} |-> 0]

\* The orders in which HashMap::values() may yield the entries of a map with
\* key set S: every enumeration of S without repetition.
Orders(S) ==
    {o \in [1 .. Cardinality(S) -> S] : \A i, j \in DOMAIN o : i # j => o[i] # o[j]}

\* One of them, for the operations whose result does not depend on it.
RECURSIVE AscendingOrder(_)
AscendingOrder(S) ==
    IF S = {} THEN <<>>
    ELSE LET m == CHOOSE x \in S : \A y \in S : x <= y
         IN <<m>> \o AscendingOrder(S \ {m})

\* self.variable_hash_map.values(), in the order the HashMap yields them
values(map, order) == [i \in 1 .. Len(order) |-> map[order[i]]]

\* Vec::sort_by_key(|var| var.variable_key): a stable insertion sort
RECURSIVE InsertByKey(_, _)
InsertByKey(sorted, v) ==
    IF sorted = <<>> THEN <<v>>
    ELSE IF v.variable_key < Head(sorted).variable_key THEN <<v>> \o sorted
    ELSE <<Head(sorted)>> \o InsertByKey(Tail(sorted), v)

\* sort_by_key left out: the children in the HashMap's order.
sort_by_key_omitted(vec) == vec

RECURSIVE sort_by_key(_)
sort_by_key(vec) ==
    IF vec = <<>> THEN <<>>
    ELSE InsertByKey(sort_by_key(SubSeq(vec, 1, Len(vec) - 1)), vec[Len(vec)])

get_variable_by_key(map, variable_key) ==
    IF variable_key \in DOMAIN map THEN Some(map[variable_key]) ELSE None

get_children(map, parent_key, order) ==
    sort_by_key(SelectSeq(values(map, order),
                          LAMBDA child : child.parent_key = parent_key))

get_variable_by_name_and_parent(map, variable_name, parent_key, order) ==
    LET child_variables ==
            SelectSeq(values(map, order),
                      LAMBDA child : child.name = variable_name
                                     /\ child.parent_key = parent_key)
    IN CASE Len(child_variables) = 0 -> None
         [] Len(child_variables) = 1 -> Some(child_variables[1])
         [] OTHER -> Some(child_variables[Len(child_variables)])

get_variable_by_name(map, variable_name, order) ==
    LET child_variables ==
            SelectSeq(values(map, order), LAMBDA child : child.name = variable_name)
    IN IF Len(child_variables) = 0 THEN None ELSE Some(child_variables[1])

has_children(map, parent_variable, order) ==
    get_children(map, Some(parent_variable.variable_key), order) # <<>>

---------------------------------------------------------------------------
(* The target: Core's memory access *)

\* core.up is FALSE when the probe transport fails for the calls of this
\* operation; an address beyond the modelled memory fails as well.
Core(mem, up) == [mem |-> mem, up |-> up]

core_read(core, address, n) ==
    IF core.up /\ address >= 0 /\ (n > 0 => address + n - 1 \in DOMAIN core.mem)
    THEN [ok |-> TRUE, bytes |-> [i \in 1 .. n |-> core.mem[address + i - 1]]]
    ELSE [ok |-> FALSE, bytes |-> <<>>]

RECURSIVE from_le_bytes(_)
from_le_bytes(bytes) ==
    IF bytes = <<>> THEN 0 ELSE Head(bytes) + 256 * from_le_bytes(Tail(bytes))

SignedScalars == {"i8", "i16", "i32", "i64", "i128", "isize"}
UnsignedScalars == {"u8", "u16", "u32", "u64", "u128", "usize"}
FloatScalars == {"f32", "f64"}
Scalars == {"bool", "char"} \cup SignedScalars \cup UnsignedScalars \cup FloatScalars

\* The length of the buffer each impl of Value reads
ReadWidth(name) ==
    CASE name \in {"bool", "i8", "u8"} -> 1
      [] name \in {"i16", "u16"} -> 2
      [] name \in {"char", "i32", "u32", "isize", "usize", "f32"} -> 4
      [] name \in {"i64", "u64", "f64"} -> 8
      [] name \in {"i128", "u128"} -> 16

\* char::from_u32(code).to_string(): the ASCII letters the model tells apart;
\* a code that is no Unicode scalar value is '?'.
CharOf(code) ==
    CASE code = 72 -> "H" [] code = 101 -> "e" [] code = 108 -> "l"
      [] code = 111 -> "o" [] code = 63 -> "?" [] code = 120 -> "x"
      [] code >= 48 /\ code <= 57 -> Digit(code - 48)
      [] OTHER -> "?"

\* char::from_u32(mem_data) or '?': no code above 0x10FFFF is a char
char_from_u32(bytes) ==
    IF bytes[4] # 0 THEN "?" ELSE CharOf(from_le_bytes(bytes))

\* The one-character texts the model tells apart, and char as u32 of each
Chars == {"H", "e", "l", "o", "?", "x"} \cup {Digit(d) : d \in 0 .. 9}
CodeOf(ch) ==
    CASE ch = "H" -> 72 [] ch = "e" -> 101 [] ch = "l" -> 108 [] ch = "o" -> 111
      [] ch = "?" -> 63 [] ch = "x" -> 120 [] OTHER -> 48 + DigitValue(ch)

---------------------------------------------------------------------------
(* Integers wider than the checker's: little-endian byte strings *)

Zeros(width) == [i \in 1 .. width |-> 0]

PushByte(low, rest) == [bytes |-> <<low>> \o rest.bytes, carry |-> rest.carry]

\* bytes * m + carry in the width of bytes, and the carry out of it
RECURSIVE MulAddBytes(_, _, _)
MulAddBytes(bytes, m, carry) ==
    IF bytes = <<>> THEN [bytes |-> <<>>, carry |-> carry]
    ELSE PushByte((Head(bytes) * m + carry) % 256,
                  MulAddBytes(Tail(bytes), m, (Head(bytes) * m + carry) \div 256))

\* Two's complement negation in the width of bytes
NegateBytes(bytes) ==
    MulAddBytes([i \in DOMAIN bytes |-> 255 - bytes[i]], 1, 1).bytes

PushQuotient(low, high) ==
    [q |-> <<(high.r * 256 + low) \div 10>> \o high.q,
     r |-> (high.r * 256 + low) % 10]

\* bytes divided by ten: the quotient in the same width, and the remainder
RECURSIVE DivMod10(_)
DivMod10(bytes) ==
    IF bytes = <<>> THEN [q |-> <<>>, r |-> 0]
    ELSE PushQuotient(Head(bytes), DivMod10(Tail(bytes)))

\* uN::to_string of the number the bytes hold
RECURSIVE BytesToString(_)
RECURSIVE QuotientToString(_)
QuotientToString(d) ==
    IF \A i \in DOMAIN d.q : d.q[i] = 0 THEN <<Digit(d.r)>>
    ELSE BytesToString(d.q) \o <<Digit(d.r)>>
BytesToString(bytes) == QuotientToString(DivMod10(bytes))

\* iN::to_string of the two's complement number the bytes hold
SignedBytesToString(bytes) ==
    IF bytes[Len(bytes)] >= 128
    THEN <<"-">> \o BytesToString(NegateBytes(bytes))
    ELSE BytesToString(bytes)

\* The floating point numbers the model tells apart: the text to_string
\* gives each, and its f32 and f64 encodings, least significant byte first.
FloatTable ==
    {[text |-> <<"1", ".", "5">>, f32 |-> <<0, 0, 192, 63>>,
      f64 |-> <<0, 0, 0, 0, 0, 0, 248, 63>>],
     [text |-> <<"5">>, f32 |-> <<0, 0, 160, 64>>,
      f64 |-> <<0, 0, 0, 0, 0, 0, 20, 64>>],
     [text |-> <<"7">>, f32 |-> <<0, 0, 224, 64>>,
      f64 |-> <<0, 0, 0, 0, 0, 0, 28, 64>>],
     [text |-> <<"1", "0", "0">>, f32 |-> <<0, 0, 200, 66>>,
      f64 |-> <<0, 0, 0, 0, 0, 0, 89, 64>>],
     [text |-> <<"2", "5", "6">>, f32 |-> <<0, 0, 128, 67>>,
      f64 |-> <<0, 0, 0, 0, 0, 0, 112, 64>>],
     [text |-> <<"-", "1">>, f32 |-> <<0, 0, 128, 191>>,
      f64 |-> <<0, 0, 0, 0, 0, 0, 240, 191>>],
     [text |-> <<"4", "2", "9", "4", "9", "6", "7", "2", "9", "6">>,
      f32 |-> <<0, 0, 128, 79>>, f64 |-> <<0, 0, 0, 0, 0, 0, 240, 65>>]}

\* f32::to_string / f64::to_string; a number outside the table is shown by
\* its bytes.
float_to_string(name, bytes) ==
    IF \E e \in FloatTable : e[name] = bytes
    THEN (CHOOSE e \in FloatTable : e[name] = bytes).text
    ELSE <<name>> \o [i \in DOMAIN bytes |-> Digit(bytes[i] % 16)]

\* <T as Value>::get_value followed by to_string(), or the error; reads is
\* the number of reads it asked of the core.
scalar_get_value(name, variable, core) ==
    LET at == memory_address(variable.memory_location)
        rd == core_read(core, at.at, ReadWidth(name))
    IN IF ~at.ok
       THEN [ok |-> FALSE, text |-> <<"no memory location">>, reads |-> 0]
       ELSE IF ~rd.ok
       THEN [ok |-> FALSE, text |-> <<"memory read failed">>, reads |-> 1]
       ELSE [ok |-> TRUE, reads |-> 1,
             text |->
                CASE name = "bool" ->
                        IF rd.bytes[1] # 0 THEN <<"true">> ELSE <<"false">>
                  [] name = "char" -> <<char_from_u32(rd.bytes)>>
                  [] name \in SignedScalars -> SignedBytesToString(rd.bytes)
                  [] name \in UnsignedScalars -> BytesToString(rd.bytes)
                  [] name \in FloatScalars -> float_to_string(name, rd.bytes)]

---------------------------------------------------------------------------
(* Value extraction *)

\* The longest string <String as Value>::get_value reads
StringLimit == 200

\* str::parse::<usize>(): an optional '+' and then digits only
RECURSIVE DigitsValue(_, _)
DigitsValue(text, acc) ==
    IF text = <<>> THEN acc
    ELSE DigitsValue(Tail(text), 10 * acc + DigitValue(Head(text)))

parse_usize(text) ==
    LET digits == IF text # <<>> /\ Head(text) = "+" THEN Tail(text) ELSE text
    IN IF digits # <<>> /\ \A i \in DOMAIN digits : IsDigit(digits[i])
       THEN [ok |-> TRUE, n |-> DigitsValue(digits, 0)]
       ELSE [ok |-> FALSE, n |-> 0]

\* core::str::from_utf8 on the bytes read: the model holds ASCII only
from_utf8(bytes) ==
    IF \A i \in DOMAIN bytes : bytes[i] < 128
    THEN [ok |-> TRUE, text |-> [i \in DOMAIN bytes |-> CharOf(bytes[i])]]
    ELSE [ok |-> FALSE, text |-> <<>>]

\* length_value.parse().unwrap_or(0_usize)
string_length_parsed(parsed) == IF parsed.ok THEN parsed.n ELSE 0

FindNamed(children, n) ==
    SelectSeq(children, LAMBDA child : child.name = Named(n))

\* Lines 1169-1180: the length the child named length holds, 0 without one
string_length_of(lengths) ==
    IF lengths # <<>> /\ lengths[1].value.tag = "Valid"
    THEN string_length_parsed(parse_usize(lengths[1].value.text))
    ELSE 0

\* Lines 1181-1198: the address of the first child of the child named
\* data_ptr, 0 without one
string_location_of(ptr_children) ==
    IF ptr_children # <<>>
    THEN memory_address(ptr_children[1].memory_location)
    ELSE [ok |-> TRUE, at |-> 0]

string_location(ptrs, map, order) ==
    string_location_of(IF ptrs # <<>>
                       THEN get_children(map, Some(ptrs[1].variable_key), order)
                       ELSE <<>>)

\* Line 1214: the bytes read, as text
string_decoded(rd, decoded) ==
    IF ~rd.ok THEN [ok |-> FALSE, text |-> <<"memory read failed">>, reads |-> 1]
    ELSE IF ~decoded.ok
    THEN [ok |-> FALSE, text |-> <<"invalid utf-8">>, reads |-> 1]
    ELSE [ok |-> TRUE, text |-> decoded.text, reads |-> 1]

\* Lines 1212-1213: the read of the string's bytes
string_read(rd) == string_decoded(rd, from_utf8(rd.bytes))

\* string_at that reads as many bytes as the length says.
string_at_untruncated(string_length, located, core) ==
    IF ~located.ok
    THEN [ok |-> FALSE, text |-> <<"no memory location">>, reads |-> 0]
    ELSE IF located.at = 0
    THEN [ok |-> TRUE, reads |-> 0,
          text |-> <<"Error: Failed to determine &str memory location">>]
    ELSE string_read(core_read(core, located.at, string_length))

\* Lines 1199-1215
string_at(string_length, located, core) ==
    IF ~located.ok
    THEN [ok |-> FALSE, text |-> <<"no memory location">>, reads |-> 0]
    ELSE IF located.at = 0
    THEN [ok |-> TRUE, reads |-> 0,
          text |-> <<"Error: Failed to determine &str memory location">>]
    ELSE string_read(core_read(core, located.at,
                               IF string_length > StringLimit
                               THEN StringLimit ELSE string_length))

string_of_children(children, core, map, order) ==
    IF children = <<>>
    THEN [ok |-> TRUE, reads |-> 0,
          text |-> <<"Error: Failed to evaluate &str value">>]
    ELSE string_at(string_length_of(FindNamed(children, "length")),
                   string_location(FindNamed(children, "data_ptr"), map, order),
                   core)

\* <String as Value>::get_value
string_get_value(variable, core, map, order) ==
    string_of_children(get_children(map, Some(variable.variable_key), order),
                       core, map, order)

\* ValueOfResult that drops the error.
ValueOfResult_dropped(r) == IF r.ok THEN Valid(r.text) ELSE Empty

\* Result::map_or_else(|err| Error(format!("{:?}", err)), Valid)
ValueOfResult(r) == IF r.ok THEN Valid(r.text) ELSE Error(r.text)

\* What extract_value leaves behind: the Variable with value v, and the
\* number of reads it asked of the core.
Extracted(variable, v, reads) ==
    [variable |-> [variable EXCEPT !.value = v], reads |-> reads]

\* quick_exit that does not look at the value.
quick_exit_ignoring_value(variable) ==
    \/ variable.memory_location = LocValue
    \/ variable.memory_location.kind \in {"Unavailable", "Error", "Unsupported"}
    \/ variable.type_name = TypeUnknown

\* The value a codec's result becomes
Decoded(variable, got) == Extracted(variable, ValueOfResult(got), got.reads)

\* The quick exit of lines 715-722
quick_exit(variable) ==
    \/ ~value_is_empty(variable.value)
    \/ variable.memory_location = LocValue
    \/ ~location_valid(variable.memory_location)
    \/ variable.type_name = TypeUnknown

\* Lines 725-731: the type and the address shown in place of the value
placeholder(variable) ==
    LET location ==
            IF variable.memory_location.kind = "Address"
            THEN Hex010X(variable.memory_location.at)
            ELSE location_debug(variable.memory_location)
    IN Valid(type_display(variable.type_name) \o <<" @ ">> \o location)

\* Variable::extract_value
extract_value(variable, core, map, order) ==
    IF quick_exit(variable)
    THEN [variable |-> variable, reads |-> 0]
    ELSE IF is_deferred(variable.variable_node_type)
    THEN Extracted(variable, placeholder(variable), 0)
    ELSE IF variable.type_name.kind = "Base"
    THEN IF variable.memory_location = LocUnknown
         THEN Extracted(variable, Empty, 0)
         ELSE LET name == Unwrap(variable.type_name.name)
              IN CASE name = "!" -> Extracted(variable, Valid(<<"<Never returns>">>), 0)
                   [] name = "()" -> Extracted(variable, Valid(<<"()">>), 0)
                   [] name = "None" -> Extracted(variable, Valid(<<"None">>), 0)
                   [] name \in Scalars ->
                         Decoded(variable, scalar_get_value(name, variable, core))
                   [] OTHER -> Extracted(variable, Empty, 0)
    ELSE IF variable.type_name = Struct("&str")
    THEN Decoded(variable, string_get_value(variable, core, map, order))
    ELSE Extracted(variable, Empty, 0)

---------------------------------------------------------------------------
(* VariableCache::cache_variable *)

\* get_sequential_key(): an atomic fetch-and-add on the process-wide counter
get_sequential_key(counter) == [key |-> counter, next |-> counter + 1]

\* validate_parent without the contains_key test.
validate_parent_unchecked(map, parent_key, variable_to_add) ==
    IF parent_key # None
    THEN [ok |-> TRUE, v |-> [variable_to_add EXCEPT !.parent_key = parent_key]]
    ELSE [ok |-> TRUE, v |-> variable_to_add]

\* Lines 44-51: the parent_key argument, when given, must be a stored key and
\* then becomes the Variable's parent_key.
validate_parent(map, parent_key, variable_to_add) ==
    IF parent_key # None
    THEN IF Unwrap(parent_key) \in DOMAIN map
         THEN [ok |-> TRUE, v |-> [variable_to_add EXCEPT !.parent_key = parent_key]]
         ELSE [ok |-> FALSE, v |-> variable_to_add]
    ELSE [ok |-> TRUE, v |-> variable_to_add]

\* allocate_key numbering the entries of one cache instead of asking the
\* shared allocator.
allocate_key_from_len(map, counter) ==
    [key |-> Cardinality(DOMAIN map) + 1, next |-> counter + 1]

\* Line 56: an add asks the allocator for the key, whatever the cache holds.
allocate_key(map, counter) == get_sequential_key(counter)

\* assign_key with the assignment left out: the Variable keeps key 0.
assign_key_forgotten(variable_to_add, fetched) == variable_to_add

\* Line 56: the new Variable takes the key the allocator returned.
assign_key(variable_to_add, fetched) ==
    [variable_to_add EXCEPT !.variable_key = fetched]

\* Lines 65-72: insert under the Variable's key; an entry already there is
\* replaced and reported as an error.
insert_new(map, variable_to_add) ==
    [ok |-> variable_to_add.variable_key \notin DOMAIN map,
     map |-> MapInsert(map, variable_to_add.variable_key, variable_to_add),
     key |-> variable_to_add.variable_key]

\* update_existing that writes the entry before it tests for the key.
update_existing_written_first(map, variable_to_add) ==
    [ok |-> variable_to_add.variable_key \in DOMAIN map,
     map |-> MapInsert(map, variable_to_add.variable_key, variable_to_add),
     key |-> variable_to_add.variable_key]

\* update_existing that inserts the entry when the key is absent.
update_existing_upsert(map, variable_to_add) ==
    [ok |-> TRUE,
     map |-> MapInsert(map, variable_to_add.variable_key, variable_to_add),
     key |-> variable_to_add.variable_key]

\* Lines 81-96: overwrite the entry of an existing key.
update_existing(map, variable_to_add) ==
    IF variable_to_add.variable_key \in DOMAIN map
    THEN [ok |-> TRUE,
          map |-> MapInsert(map, variable_to_add.variable_key, variable_to_add),
          key |-> variable_to_add.variable_key]
    ELSE [ok |-> FALSE, map |-> map, key |-> variable_to_add.variable_key]

\* Lines 102-110: store the Variable again with the value extracted
store_again(map, extracted) ==
    [ok |-> extracted.variable.variable_key \in DOMAIN map,
     map |-> MapInsert(map, extracted.variable.variable_key, extracted.variable),
     ret |-> Some(extracted.variable), reads |-> extracted.reads]

\* Lines 101-118: extract the stored Variable's value and store it again.
store_extracted(map, stored_key, core, order) ==
    IF get_variable_by_key(map, stored_key) = None
    THEN [ok |-> FALSE, map |-> map, ret |-> None, reads |-> 0]
    ELSE store_again(map, extract_value(map[stored_key], core, map, order))

Failed(map, counter, key) ==
    [ok |-> FALSE, map |-> map, counter |-> counter, key |-> key, ret |-> None,
     reads |-> 0]

\* Lines 110-118: what cache_variable returns after the extraction
Finished(final, counter, key) ==
    [ok |-> final.ok, map |-> final.map, counter |-> counter, key |-> key,
     ret |-> IF final.ok THEN final.ret ELSE None, reads |-> final.reads]

\* Lines 99-101: after the insert or the update
extract_stored(stored, counter, core, order) ==
    IF ~stored.ok THEN Failed(stored.map, counter, stored.key)
    ELSE Finished(store_extracted(stored.map, stored.key, core, order),
                  counter, stored.key)

\* Lines 55-73: the add
add_variable(map, variable_to_add, fetched, core, order) ==
    extract_stored(insert_new(map, assign_key(variable_to_add, fetched.key)),
                   fetched.next, core, order)

\* Lines 53-97: add when the key is 0, update otherwise
store_checked(map, counter, candidate, checked, core, order) ==
    IF ~checked.ok THEN Failed(map, counter, candidate.variable_key)
    ELSE IF checked.v.variable_key = 0
    THEN add_variable(map, checked.v, allocate_key(map, counter), core, order)
    ELSE extract_stored(update_existing(map, checked.v), counter, core, order)

cache_variable(map, counter, parent_key, candidate, core, order) ==
    store_checked(map, counter, candidate,
                  validate_parent(map, parent_key, candidate), core, order)

---------------------------------------------------------------------------
(* The encoders: <T as FromStr>::from_str and the write to the target *)

\* core.write_word_8 / write_word_32 / write_8: the bytes land at address, or
\* the write fails and the memory is as it was
core_write(core, address, bytes) ==
    IF core.up /\ address >= 0 /\ address + Len(bytes) - 1 \in DOMAIN core.mem
    THEN [ok |-> TRUE,
          mem |-> [a \in DOMAIN core.mem |->
                      IF a >= address /\ a < address + Len(bytes)
                      THEN bytes[a - address + 1] ELSE core.mem[a]]]
    ELSE [ok |-> FALSE, mem |-> core.mem]

\* size_of::<usize>() of the machine the debugger is built for
HostWordBytes == {4, 8}

\* size_of::<T>() where from_str and to_le_bytes run: isize and usize are
\* the host's, every other scalar has its own width
EncodeWidth(name, host) ==
    IF name \in {"isize", "usize"} THEN host ELSE ReadWidth(name)

\* WriteOp that takes every scalar for one written as a range of bytes.
WriteOp_bytes(name) == "write_8"

\* The Core function each update_value writes with
WriteOp(name) ==
    CASE name \in {"bool", "i8", "u8"} -> "write_word_8"
      [] name = "char" -> "write_word_32"
      [] OTHER -> "write_8"

NotParsed == [ok |-> FALSE, bytes |-> <<>>]
Parsed(bytes) == [ok |-> TRUE, bytes |-> bytes]

\* checked_mul(10) and checked_add(digit): a carry out of the width is
\* PosOverflow
Accumulated(r) == IF r.carry = 0 THEN Parsed(r.bytes) ELSE NotParsed

RECURSIVE DigitsToBytes(_, _)
DigitsToBytes(digits, acc) ==
    IF digits = <<>> \/ ~acc.ok THEN acc
    ELSE DigitsToBytes(Tail(digits),
                       Accumulated(MulAddBytes(acc.bytes, 10,
                                               DigitValue(Head(digits)))))

\* The range of the type: iN holds -2^(N-1) .. 2^(N-1) - 1
int_ranged(magnitude, signed, negative) ==
    IF ~magnitude.ok THEN NotParsed
    ELSE IF ~signed THEN magnitude
    ELSE IF magnitude.bytes[Len(magnitude.bytes)] < 128
    THEN Parsed(IF negative THEN NegateBytes(magnitude.bytes) ELSE magnitude.bytes)
    ELSE IF negative /\ NegateBytes(magnitude.bytes) = magnitude.bytes
    THEN magnitude
    ELSE NotParsed

int_of_digits(digits, signed, negative, width) ==
    IF digits = <<>> \/ \E i \in DOMAIN digits : ~IsDigit(digits[i])
    THEN NotParsed
    ELSE int_ranged(DigitsToBytes(digits, Parsed(Zeros(width))), signed, negative)

\* <iN as FromStr>::from_str / <uN as FromStr>::from_str: a '+' may lead any
\* number, a '-' a signed one; then digits only, and at least one
int_from_str(text, signed, width) ==
    IF text # <<>> /\ (Head(text) = "+" \/ (Head(text) = "-" /\ signed))
    THEN int_of_digits(Tail(text), signed, Head(text) = "-", width)
    ELSE int_of_digits(text, signed, FALSE, width)

bool_from_str(text) ==
    CASE text = <<"true">> -> Parsed(<<1>>)
      [] text = <<"false">> -> Parsed(<<0>>)
      [] OTHER -> NotParsed

\* <char as FromStr>::from_str takes a text of one character; as u32
char_from_str(text) ==
    IF Len(text) = 1 /\ text[1] \in Chars
    THEN Parsed(<<CodeOf(text[1]), 0, 0, 0>>)
    ELSE NotParsed

RECURSIVE StripZeros(_)
StripZeros(digits) ==
    IF Len(digits) > 1 /\ Head(digits) = "0" /\ IsDigit(digits[2])
    THEN StripZeros(Tail(digits))
    ELSE digits

\* The number a decimal text denotes, named by the text to_string gives it
Denoted(text) ==
    IF text # <<>> /\ Head(text) = "+" THEN StripZeros(Tail(text))
    ELSE IF text # <<>> /\ Head(text) = "-" THEN <<"-">> \o StripZeros(Tail(text))
    ELSE StripZeros(text)

\* <f32 as FromStr>::from_str / <f64 as FromStr>::from_str and to_le_bytes, on
\* the numbers of FloatTable
float_from_str(name, text) ==
    IF \E e \in FloatTable : e.text = Denoted(text)
    THEN Parsed((CHOOSE e \in FloatTable : e.text = Denoted(text))[name])
    ELSE NotParsed

\* What each impl of Value::update_value hands to the Core
from_str(name, text, host) ==
    CASE name = "bool" -> bool_from_str(text)
      [] name = "char" -> char_from_str(text)
      [] name \in SignedScalars -> int_from_str(text, TRUE, EncodeWidth(name, host))
      [] name \in UnsignedScalars -> int_from_str(text, FALSE, EncodeWidth(name, host))
      [] name \in FloatScalars -> float_from_str(name, text)

\* No write was asked of the Core
NoWrite == [op |-> "none", at |-> 0, len |-> 0, ok |-> FALSE]

NotWritten(core) == [ok |-> FALSE, mem |-> core.mem, write |-> NoWrite]

Written(name, at, bytes, wrote) ==
    [ok |-> wrote.ok, mem |-> wrote.mem,
     write |-> [op |-> WriteOp(name), at |-> at, len |-> Len(bytes),
                ok |-> wrote.ok]]

scalar_write(name, at, parsed, core) ==
    IF ~at.ok \/ ~parsed.ok THEN NotWritten(core)
    ELSE Written(name, at.at, parsed.bytes, core_write(core, at.at, parsed.bytes))

\* <T as Value>::update_value
scalar_update_value(name, variable, core, new_value, host) ==
    scalar_write(name, memory_address(variable.memory_location),
                 from_str(name, new_value, host), core)

---------------------------------------------------------------------------
(* Variable::set_value and Variable::update_value *)

\* impl Display for VariableValue
value_display(value) ==
    CASE value.tag = "Valid" -> value.text
      [] value.tag = "Error" -> <<"< ">> \o value.text \o <<" >">>
      [] value.tag = "Empty" ->
            <<"Value not set. Please use Variable::get_value() to infer a human readable variable value">>

\* set_value that replaces the value whatever it was.
set_value_overwriting(variable, new_value) ==
    [variable EXCEPT !.value = new_value]

set_value(variable, new_value) ==
    IF value_is_valid(new_value) THEN [variable EXCEPT !.value = new_value]
    ELSE IF value_is_valid(variable.value)
    THEN [variable EXCEPT !.value = new_value]
    ELSE [variable EXCEPT
            !.value = Error(value_display(variable.value) \o <<" : ">>
                            \o value_display(new_value))]

\* The names of the model that start with '*'
StarNames == {"*a"}

\* starts_with_star that finds no name to start with '*'.
starts_with_star_never(name) == FALSE

starts_with_star(name) == name.kind = "Named" /\ name.text \in StarNames

\* update_preconditions that takes a Variable whatever its value.
update_preconditions_ignoring_value(variable) ==
    /\ variable.type_name # TypeUnknown
    /\ location_valid(variable.memory_location)

\* Lines 595-599: a value that is no error, a type, a valid location
update_preconditions(variable) ==
    /\ value_is_valid(variable.value)
    /\ variable.type_name # TypeUnknown
    /\ location_valid(variable.memory_location)

\* Lines 611-636: the types update_value has an encoder for
is_updatable(type_name) ==
    type_name.kind = "Base" /\ Unwrap(type_name.name) \in Scalars

\* update_value returned Err before or after the write was asked for
Unwritten(map, counter, variable, update_result) ==
    [ok |-> FALSE, mem |-> update_result.mem, map |-> map, counter |-> counter,
     key |-> variable.variable_key, ret |-> None, write |-> update_result.write]

\* Lines 644-650: what update_value returns after cache_variable
Reinterned(r, update_result, new_value) ==
    [ok |-> r.ok, mem |-> update_result.mem, map |-> r.map, counter |-> r.counter,
     key |-> r.key, ret |-> IF r.ok THEN Some(new_value) ELSE None,
     write |-> update_result.write]

\* Lines 639-658
update_cache(map, counter, variable, update_result, new_value, up, order) ==
    IF ~update_result.ok THEN Unwritten(map, counter, variable, update_result)
    ELSE Reinterned(cache_variable(map, counter, variable.parent_key,
                                   [variable EXCEPT !.value = Valid(new_value)],
                                   Core(update_result.mem, up), order),
                    update_result, new_value)

\* Variable::update_value
update_value(variable, core, map, counter, new_value, host, order) ==
    IF ~update_preconditions(variable) \/ starts_with_star(variable.name)
       \/ ~is_updatable(variable.type_name)
    THEN Unwritten(map, counter, variable, NotWritten(core))
    ELSE update_cache(map, counter, variable,
                      scalar_update_value(Unwrap(variable.type_name.name),
                                          variable, core, new_value, host),
                      new_value, core.up, order)

---------------------------------------------------------------------------
(* Variable::get_value and Variable::formatted_variable_value *)

Namespace(n) == [kind |-> "Namespace", text |-> n]

\* impl Display for VariableName
name_display(name) ==
    CASE name.kind \in {"Named", "Namespace"} -> <<name.text>>
      [] name.kind = "AnonymousNamespace" -> <<"<anonymous_namespace>">>
      [] OTHER -> <<"<unknown>">>

\* The two arms that give no value to a namespace
is_namespace(name) == name.kind \in {"AnonymousNamespace", "Namespace"}

\* format!("{:?}", type_name)
type_debug(t) ==
    CASE t.kind \in {"Base", "Struct", "Enum", "Other"} ->
            <<t.kind, "(\"", Unwrap(t.name), "\")">>
      [] t.kind = "Pointer" ->
            IF t.name = None THEN <<"Pointer(None)">>
            ELSE <<"Pointer(Some(\"", Unwrap(t.name), "\"))">>
      [] t.kind = "Array" -> <<"Array { entry_type: ", Unwrap(t.name), " }">>
      [] OTHER -> <<t.kind>>

\* format!("{:08x?}", memory_location): eight hex digits for an address
location_debug_hex(loc) ==
    IF loc.kind \in {"Address", "Register"}
    THEN <<loc.kind, "(">> \o HexDigits(loc.at, 8) \o <<")">>
    ELSE <<loc.kind>>

\* The names and the struct types the formatter tells by their first letters
TupleNames == {"__0"}
ResultTypes == {"Ok", "Err"}
starts_with_0(name) == name.text \in TupleNames
starts_with_Ok_or_Err(t) == t.kind = "Struct" /\ Unwrap(t.name) \in ResultTypes

\* line_feed and the padding "{:\t<indentation$}" of an empty string
LineFeed(indentation) == IF indentation = 0 THEN <<>> ELSE <<"\n">>
Tabs(indentation) == [i \in 1 .. indentation |-> "\t"]
Margin(indentation) == LineFeed(indentation) \o Tabs(indentation)

\* What a call of the formatter comes to: the String it returns, or no
\* return at all, when it calls itself on a Variable it is already
\* formatting and so recurses until the stack is used up.
Returned(text) == [ok |-> TRUE, text |-> text]
NeverReturns == [ok |-> FALSE, text |-> <<>>]

\* format!("{}{}{}", compound_value, element, separator)
Joined(acc, element, separator) ==
    IF ~acc.ok \/ ~element.ok THEN NeverReturns
    ELSE Returned(acc.text \o element.text \o separator)

\* Lines 985-1010: pre_fix and post_fix, set by the first child with a name
NoFix == [pre |-> None, post |-> None, is_tuple |-> FALSE]
fix_of(self, child, indentation, show_name) ==
    IF child.name.kind # "Named" THEN NoFix
    ELSE IF starts_with_0(child.name)
    THEN [pre |-> Some(Margin(indentation) \o name_display(self.name) \o <<": ">>
                       \o type_display(self.type_name) \o <<"(">>
                       \o type_display(child.type_name) \o <<") = ">>
                       \o type_display(self.type_name) \o <<"(">>),
          post |-> Some(Margin(indentation) \o <<")">>), is_tuple |-> TRUE]
    ELSE [pre |-> Some(IF show_name
                       THEN Margin(indentation) \o name_display(self.name)
                            \o <<": ">> \o type_display(self.type_name)
                            \o <<" = ">> \o type_display(self.type_name) \o <<" {">>
                       ELSE Margin(indentation) \o type_display(self.type_name)
                            \o <<" {">>),
          post |-> Some(Margin(indentation) \o <<"}">>), is_tuple |-> FALSE]

\* The fixes after this child has been looked at, and the pre_fix it added
fix_after(fix, self, child, indentation, show_name) ==
    IF fix.pre = None /\ fix.post = None
    THEN fix_of(self, child, indentation, show_name)
    ELSE fix
pre_fix_added(fix, after) ==
    IF fix.pre = None /\ fix.post = None /\ after.pre # None
    THEN Unwrap(after.pre) ELSE <<>>

Separator(children) == IF Len(children) = 1 THEN <<>> ELSE <<", ">>

RECURSIVE formatted_variable_value(_, _, _, _, _, _)
RECURSIVE format_elements(_, _, _, _, _, _, _)
RECURSIVE format_members(_, _, _, _, _, _, _, _, _)

\* child.formatted_variable_value(variable_cache, indentation + 1, show_name)
\* stack holds the Variables whose formatting has not returned yet.
Nested(child, map, indentation, show_name, stack, order) ==
    IF child \in stack THEN NeverReturns
    ELSE formatted_variable_value(child, map, indentation, show_name,
                                  stack \cup {child}, order)

\* The loops over the children of an array (separated) and of an Ok or Err
format_elements(children, map, indentation, separated, stack, order, acc) ==
    IF ~acc.ok \/ children = <<>> THEN acc
    ELSE format_elements(Tail(children), map, indentation, separated, stack, order,
            Joined(acc,
                   Nested(Head(children), map, indentation + 1, FALSE, stack, order),
                   IF separated THEN Separator(children) ELSE <<>>))

\* Lines 979-1050: the loop over the members of any other type
format_members(self, children, map, indentation, show_name, stack, order, fix, acc) ==
    IF ~acc.ok THEN NeverReturns
    ELSE IF children = <<>>
    THEN Returned(acc.text \o (IF fix.post = None THEN <<>> ELSE Unwrap(fix.post)))
    ELSE format_members(self, Tail(children), map, indentation, show_name, stack,
            order,
            fix_after(fix, self, Head(children), indentation, show_name),
            Joined(Returned(acc.text
                            \o pre_fix_added(fix, fix_after(fix, self, Head(children),
                                                            indentation, show_name))),
                   Nested(Head(children), map, indentation + 1,
                          ~fix_after(fix, self, Head(children), indentation,
                                     show_name).is_tuple,
                          stack, order),
                   Separator(children)))

\* Lines 890-1068: the value inferred from the children
compound_value(self, children, map, indentation, show_name, stack, order) ==
    CASE self.type_name.kind = "Pointer" ->
            Joined(Returned(Margin(indentation)),
                   IF children # <<>>
                   THEN Nested(children[1], map, indentation + 1, TRUE, stack, order)
                   ELSE Returned(<<"Unable to resolve referenced variable value">>),
                   <<>>)
      [] self.type_name.kind = "Array" ->
            Joined(format_elements(children, map, indentation, TRUE, stack, order,
                       Returned(Margin(indentation) \o name_display(self.name)
                                \o <<": ">> \o type_display(self.type_name)
                                \o <<" = [">>)),
                   Returned(Margin(indentation) \o <<"]">>), <<>>)
      [] starts_with_Ok_or_Err(self.type_name) ->
            Joined(format_elements(children, map, indentation, FALSE, stack, order,
                       Returned(Margin(indentation) \o name_display(self.name)
                                \o <<": ">> \o type_display(self.type_name)
                                \o <<" = ", "(">>)),
                   Returned(Margin(indentation) \o <<")">>), <<>>)
      [] OTHER ->
            IF children = <<>>
            THEN Returned(Margin(indentation) \o name_display(self.name))
            ELSE format_members(self, children, map, indentation, show_name, stack,
                                order, NoFix, Returned(<<>>))

\* Variable::formatted_variable_value
formatted_variable_value(self, map, indentation, show_name, stack, order) ==
    IF ~value_is_empty(self.value)
    THEN Returned(IF show_name
                  THEN Margin(indentation) \o name_display(self.name) \o <<": ">>
                       \o type_display(self.type_name) \o <<" = ">>
                       \o value_display(self.value)
                  ELSE Margin(indentation) \o value_display(self.value))
    ELSE IF is_namespace(self.name) THEN Returned(<<>>)
    ELSE compound_value(self, get_children(map, Some(self.variable_key), order),
                        map, indentation, show_name, stack, order)

\* Lines 683-702: the value of a Variable without a value and without
\* children; byte_size is the 0 Variable::new gives it.
get_value_childless(self) ==
    IF self.type_name = TypeUnknown \/ ~location_valid(self.memory_location)
    THEN IF is_deferred(self.variable_node_type)
         THEN type_debug(self.type_name)
         ELSE <<"Error: This is a bug! Attempted to evaluate a Variable with no type or no memory location">>
    ELSE IF self.type_name = Struct("None") THEN <<"None">>
    ELSE <<"Unimplemented: Evaluate type ">> \o type_debug(self.type_name)
         \o <<" of (", "0", " bytes) at location 0x">>
         \o location_debug_hex(self.memory_location)

\* Variable::get_value
get_value(self, map, order) ==
    IF ~value_is_empty(self.value) THEN Returned(value_display(self.value))
    ELSE IF is_namespace(self.name) THEN Returned(<<>>)
    ELSE IF has_children(map, self, order)
    THEN formatted_variable_value(self, map, 0, FALSE, {self}, order)
    ELSE Returned(get_value_childless(self))

---------------------------------------------------------------------------
(* VariableCache: adopt_grand_children and the removals *)

\* The for loop of remove_cache_entry_children over the cloned children
RECURSIVE RemoveEach(_, _)
RemoveEach(map, children) ==
    IF children = <<>> THEN [ok |-> TRUE, map |-> map]
    ELSE IF Head(children).variable_key \notin DOMAIN map
    THEN [ok |-> FALSE, map |-> map]
    ELSE RemoveEach(MapRemove(map, Head(children).variable_key), Tail(children))

remove_cache_entry_children(map, parent_variable_key, order) ==
    RemoveEach(map, SelectSeq(values(map, order),
                              LAMBDA v : v.parent_key = Some(parent_variable_key)))

\* remove_cache_entry that removes the entry and leaves its children.
remove_cache_entry_only(map, variable_key, order) ==
    IF variable_key \notin DOMAIN map THEN [ok |-> FALSE, map |-> map]
    ELSE [ok |-> TRUE, map |-> MapRemove(map, variable_key)]

remove_cache_entry(map, variable_key, order) ==
    LET children_gone == remove_cache_entry_children(map, variable_key, order)
    IN IF ~children_gone.ok THEN children_gone
       ELSE IF variable_key \notin DOMAIN children_gone.map
       THEN [ok |-> FALSE, map |-> children_gone.map]
       ELSE [ok |-> TRUE, map |-> MapRemove(children_gone.map, variable_key)]

\* is_obsolete that takes every child for an intermediate node.
is_obsolete_always(obsolete_child_variable) == TRUE

\* Lines 206-207: the nodes adopt_grand_children acts on
is_obsolete(obsolete_child_variable) ==
    \/ obsolete_child_variable.type_name = TypeUnknown
    \/ obsolete_child_variable.variable_node_type # "DoNotRecurse"

\* pass_children_up that leaves the grand children where they are.
pass_children_up_omitted(map, obsolete_key, parent_key) == map

\* Lines 210-217: the children of the obsolete node become children of the
\* parent.
pass_children_up(map, obsolete_key, parent_key) ==
    [k \in DOMAIN map |->
        IF map[k].parent_key = Some(obsolete_key)
        THEN [map[k] EXCEPT !.parent_key = Some(parent_key)]
        ELSE map[k]]

adopt_grand_children(map, parent_variable, obsolete_child_variable, order) ==
    IF is_obsolete(obsolete_child_variable)
    THEN remove_cache_entry(
            pass_children_up(map, obsolete_child_variable.variable_key,
                             parent_variable.variable_key),
            obsolete_child_variable.variable_key, order)
    ELSE [ok |-> TRUE, map |-> map]

---------------------------------------------------------------------------
(* The state machine *)

Keys == 1 .. MaxKey
\* Keys a caller may name: the allocated ones and one never allocated
ArgKeys == 1 .. MaxKey + 1

Names == {Named("a"), Named("b")}

\* What the DWARF walker hands over to this cache: a u8 at address 0.
Shapes ==
    {[type_name |-> Base("u8"), variable_node_type |-> "DoNotRecurse",
      memory_location |-> Address(0)]}

\* The type and node type of the obsolete child handed to adopt_grand_children:
\* without a type or of a base type, to be recursed into or not.
AdoptShapes ==
    {[type_name |-> t, variable_node_type |-> n, memory_location |-> LocUnknown] :
        t \in {TypeUnknown, Base("u8")},
        n \in {"RecurseToBaseType", "DoNotRecurse"}}

Candidate(key, parent, name, shape) ==
    [NewVariable(name, shape.type_name, shape.variable_node_type,
                 shape.memory_location)
        EXCEPT !.variable_key = key, !.parent_key = parent]

OptKeys == {None} \cup {Some(k) : k \in ArgKeys}

\* The calls cache_variable(parent_key, candidate): a candidate's own
\* parent_key is only ever read when the argument is None.
CacheCalls(names) ==
    {call \in {<<pk, Candidate(key, parent, name, shape)>> :
                  pk \in OptKeys, key \in 0 .. MaxKey + 1, parent \in OptKeys,
                  name \in names, shape \in Shapes} :
        call[1] # None => call[2].parent_key = None}

\* last: the call whose result the caller holds.  op names the operation,
\* cache the VariableCache, pk the parent_key argument, key the key argument
\* (for cache_variable: the key the Variable was stored under), cand and
\* cand_parent the candidate's own variable_key and parent_key, name the name
\* argument, ok whether it returned Ok, ret what it returned, dom the keys the
\* cache held when the call was made and before the map it was then, arg the
\* Variable passed in, up whether the probe transport worked during the
\* call, and reads the number of reads the call asked of the core.  For
\* update_value, text is the new value, host the debugger's word size, mem
\* the target memory before the call and write the write it asked of the
\* core, with ok whether it went through; for set_value, new is the new value.
NoCall == [op |-> "none", cache |-> 0, pk |-> None, key |-> 0, cand |-> 0,
           cand_parent |-> None, name |-> Named(""), ok |-> TRUE, ret |-> None,
           dom |-> {}, before |-> EmptyMap, arg |-> None, up |-> TRUE,
           reads |-> 0, text |-> <<>>, host |-> 0, mem |-> EmptyMap,
           write |-> NoWrite, new |-> Empty]

Call(op, c, pk, key, ok, ret) ==
    [NoCall EXCEPT !.op = op, !.cache = c, !.pk = pk, !.key = key, !.ok = ok,
                   !.ret = ret, !.dom = DOMAIN caches[c], !.before = caches[c]]

InitialMemory == [a \in Addr |-> IF a = 0 THEN 42 ELSE 0]

Init ==
    /\ caches = [c \in Caches |-> EmptyMap]
    /\ CACHE_KEY = 1
    /\ memory = InitialMemory
    /\ last = NoCall
    /\ issued = <<>>
    /\ pc = [t \in Threads |-> "idle"]
    /\ local = [t \in Threads |-> Candidate(0, None, Named("a"), CHOOSE s \in Shapes : TRUE)]

\* A public operation is called when the caller has taken the result of the
\* one before.
Idle == last.op = "none" /\ \A t \in Threads : pc[t] = "idle"

Return ==
    /\ last.op # "none"
    /\ \A t \in Threads : pc[t] = "idle"
    /\ last' = NoCall
    /\ UNCHANGED <<caches, CACHE_KEY, memory, issued, pc, local>>

\* The HashMap orders a read operation on map may meet.  The operations that
\* only remove or rewrite the entries they iterate over are run on one order.
OrdersOf(map) == Orders(DOMAIN map)
OneOrder(map) == AscendingOrder(DOMAIN map)

\* The state cache_variable leaves, r being what it computed
Cached(c, parent_key, candidate, up, r) ==
    /\ caches' = [caches EXCEPT ![c] = r.map]
    /\ CACHE_KEY' = r.counter
    /\ issued' = IF r.counter # CACHE_KEY
                 THEN Append(issued, [key |-> r.key, cache |-> c])
                 ELSE issued
    /\ last' = [Call("cache_variable", c, parent_key, r.key, r.ok, r.ret)
                  EXCEPT !.cand = candidate.variable_key,
                         !.cand_parent = candidate.parent_key,
                         !.arg = Some(candidate), !.up = up,
                         !.reads = r.reads]

CacheVariable(c, parent_key, candidate, up, order) ==
    /\ Idle
    /\ candidate.variable_key = 0 => CACHE_KEY <= MaxKey
    /\ Cached(c, parent_key, candidate, up,
              cache_variable(caches[c], CACHE_KEY, parent_key, candidate,
                             Core(memory, up), order))
    /\ UNCHANGED <<memory, pc, local>>

GetChildren(c, parent_key, order) ==
    /\ Idle
    /\ last' = Call("get_children", c, parent_key, 0, TRUE,
                    get_children(caches[c], parent_key, order))
    /\ UNCHANGED <<caches, CACHE_KEY, memory, issued, pc, local>>

GetVariableByNameAndParent(c, name, parent_key, order) ==
    /\ Idle
    /\ last' = [Call("get_variable_by_name_and_parent", c, parent_key, 0, TRUE,
                     get_variable_by_name_and_parent(caches[c], name, parent_key, order))
                  EXCEPT !.name = name]
    /\ UNCHANGED <<caches, CACHE_KEY, memory, issued, pc, local>>

RemoveCacheEntry(c, key, order) ==
    /\ Idle
    /\ LET r == remove_cache_entry(caches[c], key, order)
       IN /\ caches' = [caches EXCEPT ![c] = r.map]
          /\ last' = Call("remove_cache_entry", c, None, key, r.ok, None)
    /\ UNCHANGED <<CACHE_KEY, memory, issued, pc, local>>

RemoveCacheEntryChildren(c, key, order) ==
    /\ Idle
    /\ LET r == remove_cache_entry_children(caches[c], key, order)
       IN /\ caches' = [caches EXCEPT ![c] = r.map]
          /\ last' = Call("remove_cache_entry_children", c, None, key, r.ok, None)
    /\ UNCHANGED <<CACHE_KEY, memory, issued, pc, local>>

AdoptGrandChildren(c, parent_key, child_key, shape, order) ==
    /\ Idle
    /\ LET r == adopt_grand_children(caches[c],
                    Candidate(parent_key, None, Named("a"), shape),
                    Candidate(child_key, None, Named("a"), shape), order)
       IN /\ caches' = [caches EXCEPT ![c] = r.map]
          /\ last' = [Call("adopt_grand_children", c, Some(parent_key), child_key,
                           r.ok, None)
                        EXCEPT !.arg = Some(Candidate(child_key, None, Named("a"), shape))]
    /\ UNCHANGED <<CACHE_KEY, memory, issued, pc, local>>

\* One debug session: a single thread works on cache 1, the Variables all
\* have one name, and the probe transport does not fail.
Next ==
    \/ \E call \in CacheCalls({Named("a")}) :
          CacheVariable(1, call[1], call[2], TRUE, OneOrder(caches[1]))
    \/ \E p \in OptKeys, order \in OrdersOf(caches[1]) : GetChildren(1, p, order)
    \/ \E k \in ArgKeys : RemoveCacheEntry(1, k, OneOrder(caches[1]))
    \/ \E k \in ArgKeys : RemoveCacheEntryChildren(1, k, OneOrder(caches[1]))
    \/ \E p \in ArgKeys, k \in ArgKeys, s \in AdoptShapes :
          AdoptGrandChildren(1, p, k, s, OneOrder(caches[1]))
    \/ Return

Spec == Init /\ [][Next]_vars

\* Insert sequences and lookups by name: cache_variable calls, adds and
\* updates, of Variables with two names, and the lookup between them.
NextLookup ==
    \/ \E call \in CacheCalls(Names) :
          CacheVariable(1, call[1], call[2], TRUE, OneOrder(caches[1]))
    \/ \E n \in Names, p \in OptKeys, order \in OrdersOf(caches[1]) :
          GetVariableByNameAndParent(1, n, p, order)
    \/ Return

SpecLookup == Init /\ [][NextLookup]_vars

\* A session whose caller only adds, and never hands over a Variable that
\* already carries a parent_key: the parent is always the argument.
TreeCalls ==
    {call \in CacheCalls({Named("a")}) :
        call[2].variable_key = 0 /\ call[2].parent_key = None}

NextTree ==
    \/ \E call \in TreeCalls :
          CacheVariable(1, call[1], call[2], TRUE, OneOrder(caches[1]))
    \/ \E p \in OptKeys, order \in OrdersOf(caches[1]) : GetChildren(1, p, order)
    \/ \E k \in ArgKeys : RemoveCacheEntry(1, k, OneOrder(caches[1]))
    \/ \E k \in ArgKeys : RemoveCacheEntryChildren(1, k, OneOrder(caches[1]))
    \/ \E p \in ArgKeys, k \in ArgKeys, s \in AdoptShapes :
          AdoptGrandChildren(1, p, k, s, OneOrder(caches[1]))
    \/ Return

SpecTree == Init /\ [][NextTree]_vars

---------------------------------------------------------------------------
(* Value extraction on interning *)

\* The Variables the DWARF walker may hand over: every combination of a
\* type, a node type, a location and a value out of these.
ExtractTypes ==
    {TypeUnknown, Base("u8"), Base("i16"), Struct("&str"), Pointer(Some("&Foo"))}
ExtractNodeTypes ==
    {"DoNotRecurse", "RecurseToBaseType", "ReferenceOffset", "TypeOffset",
     "DirectLookup"}
ExtractLocations ==
    {LocUnknown, LocUnavailable, Address(0), Address(171), Register(0), LocValue,
     LocError, LocUnsupported}
ExtractValues == {Empty, Valid(<<"7">>), Error(<<"e">>)}

ExtractCandidates(key) ==
    {[Candidate(key, None, Named("a"),
                [type_name |-> t, variable_node_type |-> n, memory_location |-> l])
        EXCEPT !.value = v] :
        t \in ExtractTypes, n \in ExtractNodeTypes, l \in ExtractLocations,
        v \in ExtractValues}

\* The calls that intern such a Variable as a root or under key 1, and the
\* calls that intern the Variable of key 1 again.
ExtractCalls ==
    {<<pk, candidate>> : pk \in {None, Some(1)}, candidate \in ExtractCandidates(0)}
    \cup {<<None, candidate>> : candidate \in ExtractCandidates(1)}

\* The calls that fill the cache beforehand: roots read from address 0, and
\* Variables that come with the parent_key of the last key of the session.
PrepareCalls ==
    {call \in CacheCalls({Named("a")}) :
        /\ call[1] = None
        /\ call[2].variable_key = 0
        /\ call[2].parent_key \in {None, Some(MaxKey)}}

\* The cache_variable call a session ends with: the caller keeps the result.
CacheVariableLast(c, parent_key, candidate, up, order) ==
    /\ Idle
    /\ candidate.variable_key = 0 => CACHE_KEY <= MaxKey
    /\ Cached(c, parent_key, candidate, up,
              cache_variable(caches[c], CACHE_KEY, parent_key, candidate,
                             Core(memory, up), order))
    /\ pc' = [pc EXCEPT ![c] = "done"]
    /\ UNCHANGED <<memory, local>>

NextExtract ==
    \/ \E call \in PrepareCalls :
          CacheVariable(1, call[1], call[2], TRUE, OneOrder(caches[1]))
    \/ \E call \in ExtractCalls, up \in BOOLEAN :
          CacheVariableLast(1, call[1], call[2], up, OneOrder(caches[1]))
    \/ Return

SpecExtract == Init /\ [][NextExtract]_vars

---------------------------------------------------------------------------
(* Writing a value back to the target *)

\* Highest address of the target memory of a session that writes
TargetTop == 19

\* Every byte differs from what the encoders write most often, 0 and 255.
UpdateMemory == [a \in 0 .. TargetTop |-> 17]

InitUpdate ==
    /\ caches = [c \in Caches |-> EmptyMap]
    /\ CACHE_KEY = 1
    /\ memory = UpdateMemory
    /\ last = NoCall
    /\ issued = <<>>
    /\ pc = [t \in Threads |-> "idle"]
    /\ local = [t \in Threads |-> Candidate(0, None, Named("a"), CHOOSE s \in Shapes : TRUE)]

\* The texts a user may type for the new value
UpdateTexts ==
    {<<"1", "0", "0">>, <<"+", "5">>, <<"0", "0", "7">>, <<"-", "1">>,
     <<"2", "5", "6">>, <<"4", "2", "9", "4", "9", "6", "7", "2", "9", "6">>,
     <<"1", ".", "5">>, <<"true">>, <<"false">>, <<"x">>, <<>>}

\* The Variables update_value is called on.  The caller holds a clone: of a
\* Variable of the cache, of one that has left the cache since, or one never
\* interned.  Those that may be written: every scalar type, at address 4.
WriteTargets ==
    {[Candidate(key, parent, Named("a"),
                [type_name |-> Base(t), variable_node_type |-> "DoNotRecurse",
                 memory_location |-> Address(4)])
        EXCEPT !.value = v] :
        key \in {0, 1, MaxKey + 1}, parent \in {None, Some(2)}, t \in Scalars,
        v \in {Empty, Valid(<<"7">>)}}

\* Those that update_value has a reason to refuse
RefusedTypes ==
    {TypeUnknown, Struct("&str"), Struct("Foo"), Pointer(Some("&Foo")),
     Array("u8; 2"), Base("()"), Base("u8")}
RefusedLocations ==
    {Address(4), Address(171), LocUnknown, LocUnavailable, LocError,
     LocUnsupported, Register(0), LocValue}
RefusedTargets ==
    {[Candidate(key, None, name,
                [type_name |-> t, variable_node_type |-> "DoNotRecurse",
                 memory_location |-> l])
        EXCEPT !.value = v] :
        key \in {0, 1}, name \in {Named("a"), Named("*a")}, t \in RefusedTypes,
        l \in RefusedLocations, v \in ExtractValues}

\* update_value(variable, new_value) with the transport up or down, by a
\* debugger of either word size where the encoder depends on it
UpdateCalls ==
    {<<variable, text, up, host>> :
        variable \in WriteTargets, text \in UpdateTexts, up \in BOOLEAN,
        host \in {4}}
    \cup {<<variable, text, TRUE, 8>> :
            variable \in {w \in WriteTargets :
                             w.type_name \in {Base("isize"), Base("usize")}},
            text \in UpdateTexts}
    \cup {<<variable, <<"1", "0", "0">>, TRUE, 4>> : variable \in RefusedTargets}

\* The state update_value leaves, r being what it computed
Updated(c, variable, new_value, up, host, r) ==
    /\ caches' = [caches EXCEPT ![c] = r.map]
    /\ CACHE_KEY' = r.counter
    /\ issued' = IF r.counter # CACHE_KEY
                 THEN Append(issued, [key |-> r.key, cache |-> c])
                 ELSE issued
    /\ memory' = r.mem
    /\ last' = [Call("update_value", c, variable.parent_key, r.key, r.ok, r.ret)
                  EXCEPT !.cand = variable.variable_key,
                         !.cand_parent = variable.parent_key,
                         !.arg = Some(variable), !.up = up, !.text = new_value,
                         !.host = host, !.mem = memory, !.write = r.write]

\* The update_value call of a session; the caller keeps the result.
UpdateValue(c, variable, new_value, up, host, order) ==
    /\ Idle
    /\ variable.variable_key = 0 => CACHE_KEY <= MaxKey
    /\ Updated(c, variable, new_value, up, host,
               update_value(variable, Core(memory, up), caches[c], CACHE_KEY,
                            new_value, host, order))
    /\ pc' = [pc EXCEPT ![c] = "updated"]
    /\ UNCHANGED local

\* The state the cache_variable call after an update leaves
Extracted_again(c, candidate, r) ==
    /\ caches' = [caches EXCEPT ![c] = r.map]
    /\ last' = [last EXCEPT !.op = "cache_variable", !.ok = r.ok, !.ret = r.ret,
                            !.reads = r.reads, !.before = caches[c],
                            !.arg = Some(candidate)]

\* The Variable the caller interns after the update
Reread(stored, emptied) ==
    IF emptied THEN [stored EXCEPT !.value = Empty] ELSE stored

\* After a successful update_value the caller interns the Variable of the
\* cache again: as it is stored, or with its value emptied to have it read
\* from the target.
ExtractUpdated(c, emptied, order) ==
    /\ last.op = "update_value" /\ last.ok
    /\ pc[c] = "updated"
    /\ Extracted_again(c, Reread(caches[c][last.key], emptied),
            cache_variable(caches[c], CACHE_KEY, None,
                           Reread(caches[c][last.key], emptied),
                           Core(memory, TRUE), order))
    /\ pc' = [pc EXCEPT ![c] = "done"]
    /\ UNCHANGED <<CACHE_KEY, memory, issued, local>>

\* The Variables in the cache before the update: roots read from address 0
UpdatePrepareCalls ==
    {call \in CacheCalls({Named("a")}) :
        call[1] = None /\ call[2].variable_key = 0 /\ call[2].parent_key = None}

NextUpdate ==
    \/ \E call \in UpdatePrepareCalls :
          CacheVariable(1, call[1], call[2], TRUE, OneOrder(caches[1]))
    \/ \E call \in UpdateCalls :
          UpdateValue(1, call[1], call[2], call[3], call[4], OneOrder(caches[1]))
    \/ \E emptied \in BOOLEAN : ExtractUpdated(1, emptied, OneOrder(caches[1]))
    \/ Return

SpecUpdate == InitUpdate /\ [][NextUpdate]_vars

---------------------------------------------------------------------------
(* Decoding a &str *)

\* A target that holds "Hello" over and over, room for the longest string
\* read from address 5, and a last byte that is no UTF-8.
StringTop == StringLimit + 5
StringMemory ==
    [a \in 0 .. StringTop |->
        IF a = StringTop THEN 255
        ELSE CASE a % 5 = 0 -> 72 [] a % 5 = 1 -> 101 [] a % 5 = 2 -> 108
               [] a % 5 = 3 -> 108 [] a % 5 = 4 -> 111]

InitString ==
    /\ caches = [c \in Caches |-> EmptyMap]
    /\ CACHE_KEY = 1
    /\ memory = StringMemory
    /\ last = NoCall
    /\ issued = <<>>
    /\ pc = [t \in Threads |-> "idle"]
    /\ local = [t \in Threads |-> Candidate(0, None, Named("a"), CHOOSE s \in Shapes : TRUE)]

\* The keys of a session that interns a &str, its two members and the
\* pointee of data_ptr
StringKeys == MaxKey + 1

\* The &str itself
StrVariable(key) ==
    Candidate(key, None, Named("a"),
              [type_name |-> Struct("&str"), variable_node_type |-> "DoNotRecurse",
               memory_location |-> Address(0)])

\* Its members as the DWARF walker hands them over, their values set: the
\* length, data_ptr, and what data_ptr points to
StrLengths ==
    {[Candidate(0, None, Named("length"),
                [type_name |-> Base("usize"), variable_node_type |-> "DoNotRecurse",
                 memory_location |-> Address(0)])
        EXCEPT !.value = v] :
        v \in {Valid(<<"5">>), Valid(<<"2", "0", "0">>), Valid(<<"2", "0", "1">>),
               Valid(<<"1", "0", "0", "0">>), Error(<<"e">>)}}
StrPointers ==
    {[Candidate(0, None, Named("data_ptr"),
                [type_name |-> Pointer(Some("*const u8")),
                 variable_node_type |-> "DoNotRecurse",
                 memory_location |-> Address(0)])
        EXCEPT !.value = Valid(<<"p">>)]}
StrPointees ==
    {[Candidate(0, None, Named("*data_ptr"),
                [type_name |-> Base("u8"), variable_node_type |-> "DoNotRecurse",
                 memory_location |-> l])
        EXCEPT !.value = Valid(<<"H">>)] :
        l \in {Address(5), Address(6), Address(0), Address(300), LocUnknown}}

\* The &str is interned first, its members under it, the pointee under one
\* of them.
StringCalls ==
    {<<None, StrVariable(0)>>}
    \cup {<<Some(1), member>> : member \in StrLengths \cup StrPointers}
    \cup {<<Some(k), pointee>> : k \in {2, 3}, pointee \in StrPointees}

InternMember(c, parent_key, candidate, order) ==
    /\ Idle
    /\ CACHE_KEY <= StringKeys
    /\ Cached(c, parent_key, candidate, TRUE,
              cache_variable(caches[c], CACHE_KEY, parent_key, candidate,
                             Core(memory, TRUE), order))
    /\ UNCHANGED <<memory, pc, local>>

\* The session ends with the &str interned again, its value to be read.
NextString ==
    \/ \E call \in StringCalls, order \in OrdersOf(caches[1]) :
          InternMember(1, call[1], call[2], order)
    \/ \E up \in BOOLEAN, order \in OrdersOf(caches[1]) :
          CacheVariableLast(1, None, StrVariable(1), up, order)
    \/ Return

SpecString == InitString /\ [][NextString]_vars

---------------------------------------------------------------------------
(* Setting the value of a Variable that is being built *)

\* The longest message a Variable may hold for set_value to be called again
MaxText == 13

\* The values the DWARF walker sets
NewValues ==
    {Empty, Valid(<<"1">>), Valid(<<"2">>), Error(<<"a">>), Error(<<"b">>)}

\* set_value on the Variable thread t is building
SetValue(t, new_value) ==
    /\ Idle
    /\ Len(local[t].value.text) <= MaxText
    /\ local' = [local EXCEPT ![t] = set_value(local[t], new_value)]
    /\ last' = [NoCall EXCEPT !.op = "set_value", !.arg = Some(local[t]),
                              !.new = new_value,
                              !.ret = Some(set_value(local[t], new_value))]
    /\ UNCHANGED <<caches, CACHE_KEY, memory, issued, pc>>

NextSetValue ==
    \/ \E new_value \in NewValues : SetValue(1, new_value)
    \/ Return

SpecSetValue == Init /\ [][NextSetValue]_vars

---------------------------------------------------------------------------
(* Formatting the Variables of a cache *)

\* What the DWARF walker hands over in a session whose Variables are shown:
\* structs, an Option's None, a Result's Ok with its tuple member, a
\* pointer, an array, a u8, a namespace, and nodes without type or location.
Shaped(name, type_name, node_type, location) ==
    Candidate(0, None, name,
              [type_name |-> type_name, variable_node_type |-> node_type,
               memory_location |-> location])
FormatCandidates ==
    {Shaped(Named("V"), Struct("None"), "DoNotRecurse", Address(0)),
     Shaped(Named("V"), Struct("None"), "DoNotRecurse", LocUnavailable),
     Shaped(Named("V"), Struct("S"), "DoNotRecurse", Address(0)),
     Shaped(Named("V"), Base("u8"), "DoNotRecurse", Address(0)),
     Shaped(Named("V"), Pointer(Some("*const u8")), "DoNotRecurse", Address(0)),
     Shaped(Named("V"), Array("u8"), "DoNotRecurse", Address(0)),
     Shaped(Named("__0"), Struct("Ok"), "DoNotRecurse", Address(0)),
     Shaped(Namespace("n"), Struct("S"), "DoNotRecurse", LocUnknown),
     Shaped(Named("V"), TypeUnknown, "TypeOffset", LocUnknown)}

\* The adds of the session: under no parent or under a key
FormatCalls ==
    {<<pk, candidate>> : pk \in {None} \cup {Some(k) : k \in Keys},
                         candidate \in FormatCandidates}

\* The intermediate node a caller hands to adopt_grand_children
Intermediate == {s \in AdoptShapes : s.type_name = TypeUnknown
                                     /\ s.variable_node_type = "DoNotRecurse"}

\* The Variables a caller holds: clones of the stored ones
Stored(map) == {map[k] : k \in DOMAIN map}

\* and the clone a caller still holds of the Variable once stored under key
Held(key) ==
    [Shaped(Named("V"), Struct("S"), "DoNotRecurse", Address(0))
        EXCEPT !.variable_key = key]

\* has_children(variable): ret is the bool it returned
HasChildren(c, variable, order) ==
    /\ Idle
    /\ last' = [Call("has_children", c, None, variable.variable_key, TRUE,
                     Some(has_children(caches[c], variable, order)))
                  EXCEPT !.arg = Some(variable)]
    /\ UNCHANGED <<caches, CACHE_KEY, memory, issued, pc, local>>

\* What get_value leaves: ok is whether the call returned, ret the String
Formatted(c, variable, r) ==
    last' = [Call("get_value", c, None, variable.variable_key, r.ok,
                  IF r.ok THEN Some(r.text) ELSE None)
               EXCEPT !.arg = Some(variable)]

\* variable.get_value(variable_cache)
GetValue(c, variable, order) ==
    /\ Idle
    /\ Formatted(c, variable, get_value(variable, caches[c], order))
    /\ UNCHANGED <<caches, CACHE_KEY, memory, issued, pc, local>>

NextFormat ==
    \/ \E call \in FormatCalls :
          CacheVariable(1, call[1], call[2], TRUE, OneOrder(caches[1]))
    \/ \E k \in Keys : RemoveCacheEntryChildren(1, k, OneOrder(caches[1]))
    \/ \E p \in Keys, k \in Keys, s \in Intermediate :
          AdoptGrandChildren(1, p, k, s, OneOrder(caches[1]))
    \/ \E k \in 0 .. MaxKey + 1 : HasChildren(1, Held(k), OneOrder(caches[1]))
    \/ \E variable \in Stored(caches[1]) :
          GetValue(1, variable, OneOrder(caches[1]))
    \/ Return

SpecFormat == Init /\ [][NextFormat]_vars

---------------------------------------------------------------------------
(* Two threads, each the owner of one cache, sharing the key allocator *)

\* Thread t works on cache t.  An add runs in three steps: the parent_key
\* check, the call of get_sequential_key(), and the insertion with the
\* extraction that follows it.  Only the second touches shared state.
InFlight == {t \in Threads : pc[t] = "validated"}

TBegin(t, parent_key, candidate) ==
    /\ pc[t] = "idle"
    /\ candidate.variable_key = 0
    /\ CACHE_KEY + Cardinality(InFlight) <= MaxKey
    /\ LET checked == validate_parent(caches[t], parent_key, candidate)
       IN IF checked.ok
          THEN /\ pc' = [pc EXCEPT ![t] = "validated"]
               /\ local' = [local EXCEPT ![t] = checked.v]
          ELSE UNCHANGED <<pc, local>>
    /\ UNCHANGED <<caches, CACHE_KEY, memory, last, issued>>

TGetKey(t) ==
    /\ pc[t] = "validated"
    /\ LET fetched == allocate_key(caches[t], CACHE_KEY)
           keyed == assign_key(local[t], fetched.key)
       IN /\ CACHE_KEY' = fetched.next
          /\ local' = [local EXCEPT ![t] = keyed]
          /\ issued' = Append(issued, [key |-> keyed.variable_key, cache |-> t])
    /\ pc' = [pc EXCEPT ![t] = "keyed"]
    /\ UNCHANGED <<caches, memory, last>>

TStore(t, up) ==
    /\ pc[t] = "keyed"
    /\ LET stored == insert_new(caches[t], local[t])
           final == store_extracted(stored.map, stored.key, Core(memory, up),
                                    OneOrder(stored.map))
       IN caches' = [caches EXCEPT ![t] = IF stored.ok THEN final.map ELSE stored.map]
    /\ pc' = [pc EXCEPT ![t] = "idle"]
    /\ UNCHANGED <<CACHE_KEY, memory, last, issued, local>>

TRemove(t, key) ==
    /\ pc[t] = "idle"
    /\ caches' = [caches EXCEPT
                    ![t] = remove_cache_entry(caches[t], key, OneOrder(caches[t])).map]
    /\ UNCHANGED <<CACHE_KEY, memory, last, issued, pc, local>>

NextThreads ==
    \E t \in Threads :
        \/ \E p \in OptKeys, s \in Shapes : TBegin(t, p, Candidate(0, None, Named("a"), s))
        \/ TGetKey(t)
        \/ TStore(t, TRUE)
        \/ \E k \in Keys : TRemove(t, k)

SpecThreads == Init /\ [][NextThreads]_vars

---------------------------------------------------------------------------
(* Properties *)

TheMap == caches[last.cache]
Called(op) == last.op = op

\* C1: after any sequence of cache_variable calls every stored Variable's
\* parent_key is None or the key of another stored Variable.
C1_ParentIsStored ==
    \A k \in DOMAIN caches[1] :
        LET parent == caches[1][k].parent_key
        IN parent = None \/ (Unwrap(parent) \in DOMAIN caches[1] /\ Unwrap(parent) # k)

\* C2: no stored Variable has key 0, no two stored Variables have the same
\* key, and each is stored under the map key equal to its variable_key.
C2_KeysWellFormed ==
    \A c \in Caches :
        /\ \A k \in DOMAIN caches[c] :
              /\ caches[c][k].variable_key # 0
              /\ caches[c][k].variable_key = k
        /\ \A j, k \in DOMAIN caches[c] :
              j # k => caches[c][j].variable_key # caches[c][k].variable_key

\* An update of one of several stored Variables has just succeeded.
C2_Witness ==
    /\ Called("cache_variable") /\ last.ok /\ last.cand # 0
    /\ Cardinality(DOMAIN TheMap) >= 2

\* C3: the keys assigned by successive adds, in one cache or across caches,
\* are strictly increasing, so no key is assigned twice, also after the
\* Variable that held it was removed.
C3_KeysIncrease ==
    \A i, j \in DOMAIN issued : i < j => issued[i].key < issued[j].key

\* Keys went to both caches, and a key was assigned after the Variable of an
\* earlier key had been removed from its cache.
C3_Witness ==
    \E i, j \in DOMAIN issued :
        /\ i < j
        /\ issued[i].cache # issued[j].cache
        /\ pc[issued[i].cache] = "idle"
        /\ issued[i].key \notin DOMAIN caches[issued[i].cache]
        /\ issued[j].key \in DOMAIN caches[issued[j].cache]

\* C4: the keys two threads obtain while their adds interleave are pairwise
\* distinct.
C4_KeysDistinct ==
    \A i, j \in DOMAIN issued : i # j => issued[i].key # issued[j].key

\* Both threads are inside an add, each holding the key it obtained.
C4_Witness ==
    /\ \A t \in Threads : pc[t] = "keyed"
    /\ Len(issued) >= 2
    /\ issued[Len(issued)].cache # issued[Len(issued) - 1].cache

\* C5: cache_variable with parent_key = Some(k), k not stored, fails and
\* leaves the cache as it was.
C5_BadParentRefused ==
    [][(/\ last'.op = "cache_variable"
        /\ last'.pk # None
        /\ Unwrap(last'.pk) \notin DOMAIN caches[last'.cache])
       => (~last'.ok /\ caches' = caches)]_vars

\* Such a call was made on a cache that holds Variables.
C5_Witness ==
    /\ Called("cache_variable") /\ last.pk # None
    /\ Unwrap(last.pk) \notin last.dom
    /\ last.dom # {}
    /\ ~last.ok

\* C6: cache_variable with a candidate whose key is non-zero and not stored
\* fails and leaves the cache as it was.
C6_UnknownKeyRefused ==
    [][(/\ last'.op = "cache_variable"
        /\ last'.cand # 0
        /\ last'.cand \notin DOMAIN caches[last'.cache])
       => (~last'.ok /\ caches' = caches)]_vars

\* Such a call was made with a valid parent_key on a cache that holds
\* Variables.
C6_Witness ==
    /\ Called("cache_variable") /\ last.cand # 0
    /\ last.cand \notin last.dom
    /\ last.pk # None /\ Unwrap(last.pk) \in last.dom
    /\ ~last.ok

\* C7: after every successful cache_variable(parent_key, candidate) the
\* stored Variable's parent_key equals the parent_key argument.
C7_ParentIsArgument ==
    (Called("cache_variable") /\ last.ok) => TheMap[last.key].parent_key = last.pk

\* C8: get_children(p) returns exactly the stored Variables whose parent_key
\* is p, each once, in strictly ascending order of key.
C8_ChildrenSorted ==
    Called("get_children") =>
        /\ \A i \in DOMAIN last.ret :
              /\ last.ret[i].variable_key \in DOMAIN TheMap
              /\ TheMap[last.ret[i].variable_key] = last.ret[i]
              /\ last.ret[i].parent_key = last.pk
        /\ \A k \in DOMAIN TheMap :
              TheMap[k].parent_key = last.pk =>
                  Cardinality({i \in DOMAIN last.ret : last.ret[i].variable_key = k}) = 1
        /\ \A i, j \in DOMAIN last.ret :
              i < j => last.ret[i].variable_key < last.ret[j].variable_key

\* get_children of a stored parent returned several children and left other
\* Variables out.
C8_Witness ==
    /\ Called("get_children") /\ last.pk # None
    /\ Len(last.ret) >= 2
    /\ Cardinality(DOMAIN TheMap) > Len(last.ret)

Matching == {k \in DOMAIN TheMap :
                TheMap[k].name = last.name /\ TheMap[k].parent_key = last.pk}

\* C9: of several stored Variables with the given name and parent_key,
\* get_variable_by_name_and_parent returns the one with the largest key; when
\* none matches it returns nothing.
C9_LargestKeyReturned ==
    Called("get_variable_by_name_and_parent") =>
        /\ Matching = {} => last.ret = None
        /\ Cardinality(Matching) > 1 =>
              last.ret = Some(TheMap[CHOOSE k \in Matching : \A m \in Matching : m <= k])

\* C10: after a successful remove_cache_entry(k) the cache holds no Variable
\* with key k and none whose parent_key is Some(k).
C10_EntryAndChildrenGone ==
    (Called("remove_cache_entry") /\ last.ok) =>
        /\ last.key \notin DOMAIN TheMap
        /\ \A k \in DOMAIN TheMap : TheMap[k].parent_key # Some(last.key)

\* The entry removed had a child, and another Variable stays.
C10_Witness ==
    /\ Called("remove_cache_entry") /\ last.ok
    /\ Cardinality(last.dom \ DOMAIN TheMap) >= 2
    /\ DOMAIN TheMap # {}

\* The keys of the Variables below key in map: its children, their children,
\* and so on.
RECURSIVE Below(_, _)
Below(map, found) ==
    LET more == found \cup {k \in DOMAIN map :
                              map[k].parent_key # None
                              /\ Unwrap(map[k].parent_key) \in found}
    IN IF more = found THEN found ELSE Below(map, more)

Descendants(map, key) ==
    Below(map, {k \in DOMAIN map : map[k].parent_key = Some(key)})

ParentsStored(map) ==
    \A k \in DOMAIN map :
        map[k].parent_key = None \/ Unwrap(map[k].parent_key) \in DOMAIN map

\* C11: after a successful remove_cache_entry(k) or
\* remove_cache_entry_children(k) no Variable that was a descendant of k, at
\* any depth, is left in the cache.
C11_DescendantsGone ==
    ((Called("remove_cache_entry") \/ Called("remove_cache_entry_children"))
        /\ last.ok)
    => Descendants(last.before, last.key) \cap DOMAIN TheMap = {}

\* C12: a successful remove_cache_entry(k) or remove_cache_entry_children(k)
\* on a cache in which every parent_key names a stored Variable leaves a
\* cache in which every parent_key names a stored Variable.
C12_RemovalKeepsParentsStored ==
    ((Called("remove_cache_entry") \/ Called("remove_cache_entry_children"))
        /\ last.ok /\ ParentsStored(last.before))
    => ParentsStored(TheMap)

\* C13: remove_cache_entry(k) with k not stored fails and leaves the cache
\* as it was.
C13_AbsentKeyRefused ==
    (Called("remove_cache_entry") /\ last.key \notin last.dom)
    => (~last.ok /\ TheMap = last.before)

\* The call adopt_grand_children(p, c) just made: p and c were stored.
AdoptedStored ==
    /\ Called("adopt_grand_children")
    /\ Unwrap(last.pk) \in last.dom
    /\ last.key \in last.dom

\* c, as handed over, has no type or a node_type other than DoNotRecurse.
ToBeAdopted ==
    \/ Unwrap(last.arg).type_name = TypeUnknown
    \/ Unwrap(last.arg).variable_node_type # "DoNotRecurse"

\* What adoption is to leave of the stored Variable v: a child of c becomes a
\* child of p, every other Variable stays as it is.
Adopted(v) ==
    IF v.parent_key = Some(last.key) THEN [v EXCEPT !.parent_key = last.pk] ELSE v

AdoptionDone ==
    /\ last.ok
    /\ DOMAIN TheMap = last.dom \ {last.key}
    /\ \A k \in DOMAIN TheMap : TheMap[k] = Adopted(last.before[k])

\* C14 as stated: for stored p and c with c.node_type # DoNotRecurse or
\* c.type = Unknown, adopt_grand_children(p, c) leaves c absent, the children
\* of c stored as children of p, and every other Variable unchanged.
C14_Adoption_AsStated ==
    (AdoptedStored /\ ToBeAdopted) => AdoptionDone

\* C14: the same for p and c that are two different Variables.
C14_Adoption ==
    (AdoptedStored /\ ToBeAdopted /\ Unwrap(last.pk) # last.key)
    => AdoptionDone

\* c had a child that is now a child of p, and a Variable that was no child
\* of c is stored as before.
C14_Witness ==
    /\ AdoptedStored /\ ToBeAdopted /\ Unwrap(last.pk) # last.key
    /\ \E k \in DOMAIN TheMap :
          last.before[k].parent_key = Some(last.key) /\ TheMap[k].parent_key = last.pk
    /\ \E k \in DOMAIN TheMap \ {Unwrap(last.pk)} :
          last.before[k].parent_key # Some(last.key)

\* C15: adopt_grand_children(p, c) with c.type # Unknown and c.node_type =
\* DoNotRecurse returns Ok and leaves the cache as it was.
C15_AdoptionSkipped ==
    (Called("adopt_grand_children") /\ ~ToBeAdopted)
    => (last.ok /\ TheMap = last.before)

\* Such a call was made for a stored c that has children.
C15_Witness ==
    /\ AdoptedStored /\ ~ToBeAdopted
    /\ \E k \in last.dom : last.before[k].parent_key = Some(last.key)

\* C16: when adopt_grand_children(p, c) returns an error because c is not
\* stored, the cache is as it was before the call.
C16_FailedAdoptionChangesNothing ==
    (Called("adopt_grand_children") /\ last.key \notin last.dom /\ ~last.ok)
    => TheMap = last.before

\* The cache_variable call just made passed the structural checks: its
\* parent_key argument was None or stored, its key 0 or stored.
Accepted ==
    /\ Called("cache_variable")
    /\ last.pk = None \/ Unwrap(last.pk) \in last.dom
    /\ last.cand = 0 \/ last.cand \in last.dom

Arg == Unwrap(last.arg)
Deferred == {"ReferenceOffset", "TypeOffset", "DirectLookup"}

\* The Variable passed in is a scalar whose value is to be read, and the read
\* fails: no address, no transport, or an address outside the memory.
ScalarReadFails ==
    /\ Arg.value = Empty
    /\ Arg.type_name \in {Base("u8"), Base("i16")}
    /\ Arg.variable_node_type \notin Deferred
    /\ \/ Arg.memory_location.kind = "Register"
       \/ /\ Arg.memory_location.kind = "Address"
          /\ \/ ~last.up
             \/ Arg.memory_location.at + (IF Arg.type_name = Base("u8") THEN 1 ELSE 2)
                   > MemTop + 1

\* C17: when the read of a scalar Base Variable fails during cache_variable,
\* the call succeeds, the Variable is stored and returned, and its value is
\* an Error.
C17_ReadFailureIsStored ==
    (Accepted /\ ScalarReadFails) =>
        /\ last.ok
        /\ last.key \in DOMAIN TheMap
        /\ TheMap[last.key].value.tag = "Error"
        /\ last.ret = Some(TheMap[last.key])

\* The transport failed on the read of a Variable that has an address.
C17_Witness ==
    /\ Accepted /\ ScalarReadFails
    /\ ~last.up /\ Arg.memory_location = Address(0) /\ last.reads = 1
    /\ TheMap[last.key].value.tag = "Error"

\* C18: when the Variable passed to cache_variable has a Valid or Error
\* value, or the location Value, Unavailable, Error or Unsupported, or the
\* type Unknown, no read is made and the stored value is the one passed in.
C18_QuickExit ==
    (/\ Accepted
     /\ \/ Arg.value.tag \in {"Valid", "Error"}
        \/ Arg.memory_location.kind \in {"Value", "Unavailable", "Error", "Unsupported"}
        \/ Arg.type_name = TypeUnknown)
    => (last.ok /\ TheMap[last.key].value = Arg.value /\ last.reads = 0)

\* A stored u8 was interned again with a value other than the byte in memory.
C18_Witness ==
    /\ Accepted /\ last.cand # 0 /\ last.up
    /\ Arg.value = Valid(<<"7">>)
    /\ Arg.type_name = Base("u8") /\ Arg.variable_node_type = "DoNotRecurse"
    /\ Arg.memory_location = Address(0)
    /\ last.before[last.key].value = Valid(<<"4", "2">>)
    /\ TheMap[last.key].value = Valid(<<"7">>)

\* C19 as stated: a Variable with location Unknown and an Empty value keeps
\* the Empty value and causes no read, whatever its type and node_type.
C19_UnknownLocation_AsStated ==
    (Accepted /\ Arg.memory_location = LocUnknown /\ Arg.value = Empty)
    => (last.ok /\ TheMap[last.key].value = Empty /\ last.reads = 0)

\* C19: a Variable with location Unknown and an Empty value keeps the Empty
\* value, without a read, when its type is Unknown, or its node_type is not
\* deferred and its type is not &str; with a deferred node_type and a known
\* type its value becomes "<type> @ Unknown", without a read.
C19_UnknownLocation ==
    (Accepted /\ Arg.memory_location = LocUnknown /\ Arg.value = Empty)
    => /\ last.ok
       /\ (\/ Arg.type_name = TypeUnknown
           \/ Arg.variable_node_type \notin Deferred /\ Arg.type_name # Struct("&str"))
          => (TheMap[last.key].value = Empty /\ last.reads = 0)
       /\ (Arg.type_name # TypeUnknown /\ Arg.variable_node_type \in Deferred)
          => /\ TheMap[last.key].value =
                    Valid(<<Unwrap(Arg.type_name.name), " @ ", "Unknown">>)
             /\ last.reads = 0

\* A pointer to be looked up later, with no location yet, was interned.
C19_Witness ==
    /\ Accepted /\ Arg.memory_location = LocUnknown /\ Arg.value = Empty
    /\ Arg.type_name = Pointer(Some("&Foo"))
    /\ Arg.variable_node_type = "ReferenceOffset"
    /\ TheMap[last.key].value.tag = "Valid"

\* "0x" and the eight upper-case hex digits of the addresses in use
AddressText(address) ==
    IF address = 171
    THEN <<"0x", "0", "0", "0", "0", "0", "0", "A", "B">>
    ELSE <<"0x", "0", "0", "0", "0", "0", "0", "0", "0">>

\* C20: interning a new Variable with an Empty value, a known type, an
\* Address and a deferred node_type stores the value "<type> @ <address>",
\* makes no read, and leaves the Variable without children.
C20_DeferredPlaceholder ==
    (/\ Accepted /\ last.cand = 0
     /\ Arg.value = Empty /\ Arg.type_name # TypeUnknown
     /\ Arg.memory_location.kind = "Address"
     /\ Arg.variable_node_type \in Deferred)
    => /\ last.ok
       /\ TheMap[last.key].value =
             Valid(<<Unwrap(Arg.type_name.name), " @ ">>
                   \o AddressText(Arg.memory_location.at))
       /\ last.reads = 0
       /\ \A order \in OrdersOf(TheMap) :
             get_children(TheMap, Some(last.key), order) = <<>>

---------------------------------------------------------------------------
(* Properties of update_value *)

Updating == Called("update_value")

\* The call was refused: an error, nothing asked of the core, target memory
\* and cache as they were
Refused ==
    /\ ~last.ok /\ last.ret = None
    /\ last.write = NoWrite /\ memory = last.mem
    /\ TheMap = last.before

TargetBytes(mem, variable) ==
    [i \in 1 .. ReadWidth(Unwrap(variable.type_name.name)) |->
        mem[variable.memory_location.at + i - 1]]

\* The bytes are the little-endian encoding of the value text denotes, in
\* the width of the type on the target
Encodes(bytes, name, text) ==
    CASE name = "bool" -> bytes = IF text = <<"true">> THEN <<1>> ELSE <<0>>
      [] name = "char" -> bytes = <<CodeOf(text[1]), 0, 0, 0>>
      [] name \in SignedScalars -> SignedBytesToString(bytes) = Denoted(text)
      [] name \in UnsignedScalars -> BytesToString(bytes) = Denoted(text)
      [] name \in FloatScalars ->
            \E e \in FloatTable : e.text = Denoted(text) /\ e[name] = bytes

\* C23: after update_value(new_text) succeeds on a stored scalar Variable at
\* address a, the target holds at a the little-endian encoding of the value
\* and the cache holds the Variable with the value Valid(new_text).
C23_WriteVisible ==
    (Updating /\ last.ok /\ Arg.variable_key \in last.dom)
    => /\ Encodes(TargetBytes(memory, Arg), Unwrap(Arg.type_name.name), last.text)
       /\ get_variable_by_key(TheMap, Arg.variable_key)
             = Some([Arg EXCEPT !.value = Valid(last.text)])

\* C24: when update_value returns an error the cache is as it was before
\* the call.
C24_ErrorLeavesCache ==
    (Updating /\ ~last.ok) => (last.ret = None /\ TheMap = last.before)

\* The write went through and interning the Variable again failed: its key
\* is not in the cache.
C24_Witness ==
    /\ Updating /\ ~last.ok
    /\ last.write.ok /\ memory # last.mem
    /\ Arg.variable_key \notin last.dom /\ Arg.variable_key # 0
    /\ TheMap = last.before

Integers_and_bool == {"bool"} \cup SignedScalars \cup UnsignedScalars

\* The encoder accepted the text and its write reached the target
Wrote == Updating /\ last.write.ok

\* The text to_string gives the value the accepted text denotes
TextOf(name, text) ==
    IF name \in {"bool", "char"} THEN text ELSE Denoted(text)

TypeOf(variable) == Unwrap(variable.type_name.name)

\* C25: for the integer types and bool, decoding the bytes the encoder wrote
\* at the address returns the value the text denotes.
C25_RoundTrip ==
    (Wrote /\ TypeOf(Arg) \in Integers_and_bool)
    => LET got == scalar_get_value(TypeOf(Arg), Arg, Core(memory, TRUE))
       IN got.ok /\ got.text = TextOf(TypeOf(Arg), last.text)

\* The cache_variable call that followed a successful update_value returned
Reinterning == last.op = "cache_variable" /\ pc[1] = "done"

\* C26: update_value(t) followed by extraction on the same Variable leaves
\* the value Valid(text(x)), x being the value t denotes.
C26_CanonicalAfterUpdate ==
    Reinterning
    => /\ last.ok
       /\ TheMap[last.key].value = Valid(TextOf(TypeOf(Arg), last.text))

\* The bytes of mem outside the len bytes at address at are those of before
OnlyChanged(mem, before, at, len) ==
    \A a \in DOMAIN mem : (a < at \/ a >= at + len) => mem[a] = before[a]

Words == {"isize", "usize"}

\* C27: update_value of an isize or usize writes exactly 4 bytes at the
\* address and leaves every other byte of the target unchanged, and decoding
\* reads the 4 bytes at the address.
C27_WordIs32Bit ==
    /\ (Updating /\ last.write.op # "none" /\ TypeOf(Arg) \in Words)
       => /\ last.write.len = 4
          /\ OnlyChanged(memory, last.mem, Arg.memory_location.at, 4)
    /\ (Reinterning /\ Arg.value = Empty /\ TypeOf(Arg) \in Words)
       => TheMap[last.key].value.text
            = IF TypeOf(Arg) = "isize"
              THEN SignedBytesToString(SubSeq(TargetBytes(memory, Arg), 1, 4))
              ELSE BytesToString(SubSeq(TargetBytes(memory, Arg), 1, 4))

Narrow == {"bool", "char", "u8", "i8"}

FixedWidth(name) ==
    CASE name \in {"i16", "u16"} -> 2
      [] name \in {"i32", "u32", "f32"} -> 4
      [] name \in {"i64", "u64", "f64"} -> 8
      [] name \in {"i128", "u128"} -> 16

---------------------------------------------------------------------------
(* Properties of the &str decoding *)

ChildrenOf(map, key) == {k \in DOMAIN map : map[k].parent_key = Some(key)}
NamedChildren(map, key, n) ==
    {k \in ChildrenOf(map, key) : map[k].name = Named(n)}
FirstKey(keys) == CHOOSE k \in keys : \A j \in keys : k <= j

\* The &str of key 1 was interned again with an empty value
DecodingStr ==
    /\ Called("cache_variable") /\ pc[1] = "done"
    /\ 1 \in last.dom /\ Arg = StrVariable(1)

\* The cache held, under the &str, a length with a Valid value and a
\* data_ptr whose first child is at an address other than 0
StrLength == last.before[FirstKey(NamedChildren(last.before, 1, "length"))]
StrPointee ==
    last.before[FirstKey(ChildrenOf(last.before,
                    FirstKey(NamedChildren(last.before, 1, "data_ptr"))))]
StrMaterialized ==
    /\ NamedChildren(last.before, 1, "length") # {}
    /\ StrLength.value.tag = "Valid"
    /\ NamedChildren(last.before, 1, "data_ptr") # {}
    /\ ChildrenOf(last.before,
                  FirstKey(NamedChildren(last.before, 1, "data_ptr"))) # {}
    /\ StrPointee.memory_location.kind = "Address"
    /\ StrPointee.memory_location.at # 0

\* min(n, 200) for the n the length holds
StrBytes ==
    IF parse_usize(StrLength.value.text).n > 200 THEN 200
    ELSE parse_usize(StrLength.value.text).n

\* The target can be read there and the bytes are UTF-8 text
StrReadable ==
    /\ last.up
    /\ StrPointee.memory_location.at + StrBytes - 1 <= StringTop
    /\ \A i \in 1 .. StrBytes :
          memory[StrPointee.memory_location.at + i - 1] < 128

\* C29: decoding a &str whose length n and data_ptr are in the cache reads
\* the min(n, 200) bytes at the address of data_ptr's first child, in one
\* read, and the value is their text; where the target cannot be read
\* there, or the bytes are no UTF-8, the value is an Error.
C29_StrDecoded ==
    (DecodingStr /\ StrMaterialized)
    => /\ last.ok /\ last.reads = 1
       /\ IF StrReadable
          THEN TheMap[1].value =
                 Valid([i \in 1 .. StrBytes |->
                          CharOf(memory[StrPointee.memory_location.at + i - 1])])
          ELSE TheMap[1].value.tag = "Error"

\* A &str of length 1000 at address 5 was decoded: 200 characters.
C29_Witness ==
    /\ DecodingStr /\ StrMaterialized
    /\ StrLength.value = Valid(<<"1", "0", "0", "0">>)
    /\ StrPointee.memory_location = Address(5)
    /\ TheMap[1].value.tag = "Valid"
    /\ Len(TheMap[1].value.text) = 200
    /\ SubSeq(TheMap[1].value.text, 1, 5) = <<"H", "e", "l", "l", "o">>

---------------------------------------------------------------------------
(* Properties of set_value *)

\* The message occurs in the text
Contains(text, message) ==
    \E i \in 1 .. Len(text) - Len(message) + 1 :
        SubSeq(text, i, i + Len(message) - 1) = message

\* C30: set_value replaces the value by a new Valid value whatever it was,
\* replaces a Valid value by a new Error, and on an Error leaves a new Error
\* whose text holds the earlier text and the new message; nothing but the
\* value changes.
C30_SetValuePolicy ==
    Called("set_value")
    => /\ Unwrap(last.ret) = [Arg EXCEPT !.value = Unwrap(last.ret).value]
       /\ last.new.tag = "Valid" => Unwrap(last.ret).value = last.new
       /\ (last.new.tag = "Error" /\ Arg.value.tag = "Valid")
             => Unwrap(last.ret).value = last.new
       /\ (last.new.tag = "Error" /\ Arg.value.tag = "Error")
             => /\ Unwrap(last.ret).value.tag = "Error"
                /\ Contains(Unwrap(last.ret).value.text, Arg.value.text)
                /\ Contains(Unwrap(last.ret).value.text, last.new.text)

\* A third Error was set on a Variable that held two: all three are there.
C30_Witness ==
    /\ Called("set_value")
    /\ Arg.value = Error(<<"< ", "a", " >", " : ", "< ", "b", " >">>)
    /\ last.new = Error(<<"a">>)
    /\ local[1].value =
          Error(<<"< ", "< ", "a", " >", " : ", "< ", "b", " >", " >", " : ",
                  "< ", "a", " >">>)

---------------------------------------------------------------------------
(* Properties of the parent relation *)

\* C33: in every cache reached through cache_variable, adopt_grand_children,
\* remove_cache_entry and remove_cache_entry_children no Variable is its own
\* parent, nor its own ancestor at any depth.
C33_ParentsAcyclic ==
    \A k \in DOMAIN caches[1] : k \notin Descendants(caches[1], k)

\* C37: a successful remove_cache_entry_children(k) leaves the Variable k
\* and every Variable that was not below k stored as they were, and a
\* successful add through cache_variable leaves every Variable stored before
\* as it was.
C37_OnlySubtreeRemoved ==
    /\ (Called("remove_cache_entry_children") /\ last.ok)
         => \A k \in last.dom :
               (k = last.key \/ k \notin Descendants(last.before, last.key))
               => (k \in DOMAIN TheMap /\ TheMap[k] = last.before[k])
    /\ (Called("cache_variable") /\ last.ok /\ last.cand = 0)
         => \A k \in last.dom :
               k \in DOMAIN TheMap /\ TheMap[k] = last.before[k]

---------------------------------------------------------------------------
(* Properties of failing updates and of the first interning of a &str *)

\* C35: whenever update_value returns an error the target memory is as it was
\* before the call.
C35_ErrorLeavesMemory ==
    (Updating /\ ~last.ok) => memory = last.mem

\* C36: cache_variable leaves a Struct("&str") Variable that came with an
\* Empty value with a Valid value only when the string's bytes were read
\* from the target.
C36_StrValidOnlyIfRead ==
    (Called("cache_variable") /\ last.ok
        /\ Arg.type_name = Struct("&str") /\ Arg.value = Empty
        /\ TheMap[last.key].value.tag = "Valid")
    => last.reads >= 1

---------------------------------------------------------------------------
(* Properties of get_value and has_children *)

\* C31: get_value of a stored Variable of struct type "None" with an Empty
\* value and no children returns the Variable's name.
C31_NoneFormatsAsName ==
    (Called("get_value") /\ Arg \in Stored(TheMap)
        /\ Arg.type_name = Struct("None") /\ Arg.value = Empty
        /\ ChildrenOf(TheMap, Arg.variable_key) = {})
    => (last.ok /\ last.ret = Some(name_display(Arg.name)))

\* C32: has_children of a Variable whose key is not in the cache does not
\* answer true, and of a stored one answers true exactly when a Variable
\* with that parent_key is stored.
C32_HasChildrenChecksParent ==
    Called("has_children")
    => IF last.key \in last.dom
       THEN last.ok /\ last.ret = Some(ChildrenOf(TheMap, last.key) # {})
       ELSE ~last.ok \/ last.ret = Some(FALSE)

\* C34: get_value returns for every stored Variable of every cache reached.
C34_GetValueReturns ==
    Called("get_value") => last.ok

====
